---- MODULE Spec2Model ----
(***************************************************************************)
(* Plugin host of the discord-bot repository: the main task (main.rs), the *)
(* plugin runtime with its event router and stop sequence                  *)
(* (plugins/runtime.rs), the host calls a plugin can make                  *)
(* (plugins/runtime/internal.rs), and the two collaborators the runtime    *)
(* talks to over channels (discord.rs, job_scheduler.rs).                  *)
(***************************************************************************)
EXTENDS Integers, Sequences, FiniteSets, TLC

\* ---------------------------------------------------------------- bounds
\* Total number of routed messages the collaborators enqueue in one run.
MaxMsgs == 2
\* Total number of dependency host calls plugins make in one run.
MaxDepCalls == 2
\* Longest versions list of a registry plugin entry.
MaxVersions == 2

\* The configured plugins, in config-map order.
PluginIds == {"a", "b"}
ConfigOrder == <<"a", "b">>
\* The configured plugins whose permissions include Shutdown.
ShutdownCapable == {"a"}
\* What the initialization export of each configured plugin returns when it
\* succeeds: the plugins that subscribe to message_create and the plugins
\* that request a scheduled job.
WantsMessages == {"a", "b"}
WantsJob == {"a"}
\* The plugins that declare an application command.
WantsCommand == {"a", "b"}
\* How one pass of the loop of initialize_plugins ends for a plugin:
\* "loaded"; "skipped" (Component::new, instantiate_async or
\* call_initialization failed); "unreadable" (fs::read of plugin.wasm
\* failed); "workspace_unchecked" (fs::exists of the workspace directory
\* failed); "workspace_uncreated" (fs::create_dir of it failed).
InitOutcomes == {"loaded", "skipped", "unreadable", "workspace_unchecked",
                 "workspace_uncreated"}
\* The thread event kinds of PluginRegistrationsDiscordEvents.
ThreadKinds == {"thread_create", "thread_delete", "thread_list_sync",
                "thread_member_update", "thread_members_update",
                "thread_update"}
\* The custom ids plugins use for message components and modals.
CustomIds == {"x", "y"}
\* The rest of what the initialization export of each configured plugin
\* returns: thread subscriptions, message-component ids and modal ids.
WantsThreads == [p \in PluginIds |-> IF p = "b" THEN {"thread_update"} ELSE {}]
WantsComponents == [p \in PluginIds |-> {"x"}]
WantsModals == [p \in PluginIds |-> IF p = "a" THEN {"y"} ELSE {}]

\* The registration request the initialization export of plugin p returns.
ConfiguredRequest(p) ==
    [message_create |-> p \in WantsMessages,
     threads |-> WantsThreads[p],
     message_components |-> WantsComponents[p],
     modals |-> WantsModals[p],
     scheduled_job |-> p \in WantsJob,
     application_command |-> p \in WantsCommand]

\* The registration requests an arbitrary plugin in the place of p may
\* return: any message_create flag, no thread subscription, one, or all of
\* them, and any custom ids.
RegistrationRequests(p) ==
    [message_create : BOOLEAN,
     threads : {{}} \cup {{k} : k \in ThreadKinds} \cup {ThreadKinds},
     message_components : SUBSET CustomIds,
     modals : SUBSET CustomIds,
     scheduled_job : {p \in WantsJob},
     application_command : {p \in WantsCommand}]

\* The guilds the bot is in, in the order current_user_guilds returns them,
\* and the scopes a command can live in at the chat service.
Guilds == <<"g1">>
CmdScopes == {"global"} \cup {Guilds[i] : i \in 1..Len(Guilds)}
\* The command names plugins declare and the chat service may already hold.
CmdNames == {"ping", "ping~1"}
\* The commands that may exist at the chat service before the pass, by id.
ExistingCommands ==
    <<[scope |-> "global", name |-> "ping"], [scope |-> "global", name |-> "ping~1"],
      [scope |-> "g1", name |-> "ping"], [scope |-> "g1", name |-> "ping~1"]>>
\* What one plugin may put in its registration request: no command, or one
\* command with a name, a guild_id (or none) and data that deserializes or not.
NoCommand == [name |-> "", scope |-> "", valid |-> FALSE]
DeclaredCommands ==
    {NoCommand} \cup [name : CmdNames, scope : CmdScopes, valid : BOOLEAN]

\* env!("CARGO_PKG_VERSION"), as a sequence of characters.
HostVersion == <<"0", "1">>
\* The compatible_program_version strings registry entries carry: empty, a
\* proper prefix of the host's version, the host's version, strings that
\* differ from it, and a string longer than it.
CompatStrings ==
    {<<>>, <<"0">>, <<"1">>, <<"0", "1">>, <<"0", "0">>, <<"0", "1", "0">>}
\* The version strings of registry entries.
VersionStrings == {"1", "2"}
\* RegistryPluginVersion; deprecated is None, Some((false, _)) or
\* Some((true, _)).
RegistryPluginVersions ==
    [version : VersionStrings,
     deprecated : {"none", "false", "true"},
     compatible_program_version : CompatStrings]
\* The version requests parse_plugin_string yields.
RequestedVersions == {"latest"} \cup VersionStrings
\* The versions lists of a manifest entry in the model of get_plugins: at
\* most one version.
ManifestEntries ==
    {<<>>} \cup
    {<<v>> : v \in {w \in RegistryPluginVersions :
                        w.version = "1" /\ w.deprecated # "false"}}

\* What an export call yields: Ok(Ok(..)), Ok(Err(string)) (the plugin
\* returned an error) or Err(..) (the call trapped).
ExportResults == {"ok", "error", "trap"}
\* No routed call has returned yet.
NoResult == [plugin |-> "none", kind |-> "none"]

\* The callers of Runtime::shutdown: the main task (terminal interrupt)
\* and the plugin host call (made on the router task).
Callers == {"main", "plugin"}

NoReason == "None"
\* Cron expressions: one Job::new_async_tz parses and one it rejects.
Crons == {"valid", "invalid"}
\* The crons of one scheduled-job registration request.
MaxCrons == 2
CronLists == UNION {[1..n -> Crons] : n \in 0..MaxCrons}
\* The serialized gateway events (simd_json::to_vec of the event): the
\* n-th payload stands for the event that arrived when n was the next
\* routed-message id, so no two events that enqueue something share one.
Payloads == 1..(MaxMsgs + 1)
\* The ids the chat service assigned to the registered commands.
CommandIds == {1, 2}
\* No gateway event has been handled.
NoEvent == [kind |-> "none", data |-> "none", command_id |-> 0, name |-> "",
            custom_id |-> "", payload |-> 0]
\* The gateway events with subscriber lists.
SubscribedEvents ==
    [kind : {"message_create"} \cup ThreadKinds, data : {"none"}, command_id : {0},
     name : {""}, custom_id : {""}, payload : Payloads]
\* Event::InteractionCreate: an application command (the id the service
\* assigned and the name), a message component or a modal submit (the
\* custom id), no data, or data of another type.
InteractionEvents ==
    [kind : {"interaction_create"}, data : {"application_command"},
     command_id : CommandIds, name : CmdNames, custom_id : {""}, payload : Payloads]
    \cup [kind : {"interaction_create"}, data : {"message_component", "modal_submit"},
          command_id : {0}, name : {""}, custom_id : CustomIds, payload : Payloads]
    \cup [kind : {"interaction_create"}, data : {"none", "other"},
          command_id : {0}, name : {""}, custom_id : {""}, payload : Payloads]
NoMsg == [id |-> 0, kind |-> "none", plugin |-> "none"]

VARIABLES
    mainPc,             \* position of the main task (main / run / shutdown in main.rs)
    exitCode,           \* process exit code, -1 while the process runs
    reasonAtExit,       \* value of SHUTDOWN when main returned
    requests,           \* plugin -> the registration request its initialization returns
    toInit,             \* available plugins initialize_plugins still has to visit
    plugins,            \* keys of Runtime.plugins
    message_create,     \* PluginRegistrations.discord_events.message_create
    thread_lists,       \* thread kind -> PluginRegistrations.discord_events.thread_*
    message_components, \* interaction_create.message_components: set of <<custom id, plugin>>
    modals,             \* interaction_create.modals: set of <<custom id, plugin>>
    job_requests,       \* registration_requests.scheduled_jobs accumulated by initialize_plugins
    command_requests,   \* registration_requests...application_commands accumulated by initialize_plugins
    init_outcome,       \* plugin -> how its pass of the loop ended, "pending" before
    scheduled_jobs,     \* plugins that own a timer in PluginRegistrations.scheduled_jobs
    SHUTDOWN,           \* static SHUTDOWN: RwLock<Option<Shutdown>>
    cancellation_token, \* Runtime.cancellation_token, TRUE once cancelled
    dbc_js_rx,          \* routed-message channel (RuntimeMessages), FIFO
    rx_closed,          \* dbc_js_rx.close() was called
    nextId,             \* arrival number given to the next routed message
    js_rx,              \* channel to the job scheduler (JobSchedulerMessages)
    dbc_rx,             \* channel to the discord bot client (DiscordBotClientMessages)
    jsState,            \* job scheduler task: "new", "running", "shut"
    dbcState,           \* discord bot client task: "new", "running", "closed", "stuck", "dropped"
    routerPc,           \* event router task: "notStarted", "recv", "calling", "done", "panicked"
    stack,              \* plugin ids of the router's current call chain, outermost first
    topState,           \* what the innermost call does: "lockWait", "running",
                        \* "hostShutdown", "hostRequest"
    curMsg,             \* routed message the router is serving, NoMsg if none
    last_result,        \* [plugin, kind] of the most recent routed call that returned
    dep_result,         \* what the latest dependency host call gave its caller: "none", "Ok", "Err", or "missing_panic" / "trap_panic" when the call panicked instead
    storeLock,          \* plugin id -> TRUE iff RuntimePlugin.store mutex is held
    depCalls,           \* dependency host calls made so far
    sdPc,               \* caller -> position inside Runtime::shutdown
    sdType,             \* caller -> the Shutdown reason it passes
    jsDone,             \* caller -> state of its job_scheduler_is_done oneshot
    dbcDone,            \* caller -> state of its discord_bot_client_is_done oneshot
    sdStage,            \* caller -> furthest step of the stop sequence it performed
    shutdown_calls,     \* plugin -> number of times its shutdown export was entered
    lastStarted,        \* plugin -> arrival number of its latest router invocation begun
    lastCompleted,      \* plugin -> arrival number of its latest router invocation returned
    cmdPc,              \* position inside application_command_registrations, "idle" outside
    cmd_request,        \* its argument: the requested commands, in initialization order
    service,            \* commands at the chat service: [id, scope, name]
    service0,           \* the commands at the chat service when the pass began
    nextCmdId,          \* the id the chat service gives to the next new command
    discord_commands,   \* local discord_commands: set of <<name, command>>
    groups,             \* global_commands / guild_commands entries not yet visited
    guildsLeft,         \* guilds whose commands are still to be fetched
    skippedGuilds,      \* guilds whose GetGuildCommands request failed
    work,               \* entries of the group being visited, with the name to send
    application_commands, \* interaction_create.application_commands: set of <<id, <<plugin, internal id>>>>
    forwarded,          \* registrations attempted so far: [plugin_id, internal_id, scope, declared, name, sent, id]
    requested_version,  \* find_plugin_version_match: its requested_version argument
    plugin_versions,    \* find_plugin_version_match: its plugin_versions argument
    matchResult,        \* its result: a version, "None", or "Panic"; "pending" before the call
    gpPc,               \* get_plugins: "idle", "joining", "returned", "panicked"
    gp_config,          \* plugin -> [requested, listed, versions]: its reference, whether the manifest has it, its versions
    registries,         \* the registries cache entry of the registry: "absent", "Some", "None"
    taskPc,             \* plugin -> position of its resolution task
    joined,             \* number of tasks get_plugins has awaited
    available_plugins,  \* the Vec get_plugins builds, as [id, version]
    cache,              \* the cache argument of get_plugins
    wasm_exists,        \* plugins whose plugin.wasm exists in the directory of their version
    gpRun,              \* number of the run of get_plugins: 1, or 2 for a repeated run
    first_result,       \* the Vec the first run returned
    manifest_fetches,   \* plugins.json requests of this run
    file_fetches,       \* tasks of this run that requested metadata.json / plugin.wasm
    pathPc,             \* one plugin from its resolution task to its load: "idle", "lookup", "materialize", "Ok", "Err", "read", "panicked"
    plugin_id,          \* the key of the plugin in config.plugins
    plugin_registry_id, \* the plugin id parse_plugin_string finds in its reference
    registry_plugins,   \* the keys of registry.plugins in the manifest
    wasm_files,         \* the directories <<id, version>> under the plugin directory that hold a plugin.wasm
    lookup_key,         \* the key the task looked up in registry.plugins
    plugin_directory,   \* the directory the task found or wrote plugin.wasm in
    available_plugin,   \* the AvailablePlugin the task returned, as [id, version]
    plugin_dir,         \* the directory initialize_plugins reads plugin.wasm from
    jobPc,              \* scheduled_job_registrations: "idle", "registering", "done"
    job_request,        \* its argument: a sequence of [plugin_id, internal_id, crons]
    job_index,          \* position of the outer loop in job_request
    cron_index,         \* position of the inner loop in the crons of that request
    timers,             \* the jobs of the cron engine: [uuid, plugin_id, internal_id] (the ids its callback captured)
    scheduled_jobs_by_uuid, \* plugin_registrations.scheduled_jobs: set of <<uuid, <<plugin id, internal id>>>>
    next_uuid,          \* stands for the fresh uuid of the next Job
    cron_log,           \* how each pass of the inner loop ended: [job, cron, outcome, uuid]
    event               \* the gateway event handle_event was called with last: [kind, data, command_id, name, custom_id, payload]

vars == <<mainPc, exitCode, reasonAtExit, requests, toInit, plugins,
          message_create, thread_lists, message_components, modals,
          job_requests, command_requests, init_outcome, scheduled_jobs,
          SHUTDOWN,
          cancellation_token, dbc_js_rx, rx_closed, nextId, js_rx, dbc_rx,
          jsState, dbcState, routerPc, stack, topState, curMsg,
          storeLock, depCalls, last_result, dep_result, sdPc, sdType, jsDone, dbcDone, sdStage,
          shutdown_calls, lastStarted, lastCompleted,
          cmdPc, cmd_request, service, service0, nextCmdId, discord_commands,
          groups, guildsLeft, skippedGuilds, work, application_commands,
          forwarded, requested_version, plugin_versions, matchResult,
          gpPc, gp_config, registries, taskPc, joined, available_plugins,
          cache, wasm_exists, gpRun, first_result, manifest_fetches, file_fetches,
          pathPc, plugin_id, plugin_registry_id, registry_plugins, wasm_files,
          lookup_key, plugin_directory, available_plugin, plugin_dir,
          jobPc, job_request, job_index, cron_index, timers,
          scheduled_jobs_by_uuid, next_uuid, cron_log,
          event>>

\* The variables of the main program and those of the passes modelled on
\* their own.
progVars == <<mainPc, exitCode, reasonAtExit, requests, toInit, plugins,
              message_create, thread_lists, message_components, modals,
              job_requests, command_requests, init_outcome, scheduled_jobs,
              SHUTDOWN,
              cancellation_token, dbc_js_rx, rx_closed, nextId, js_rx, dbc_rx,
              jsState, dbcState, routerPc, stack, topState, curMsg,
              storeLock, depCalls, last_result, dep_result, sdPc, sdType, jsDone, dbcDone, sdStage,
              shutdown_calls, lastStarted, lastCompleted>>
cmdVars == <<cmdPc, cmd_request, service, service0, nextCmdId, discord_commands,
             groups, guildsLeft, skippedGuilds, work, application_commands,
             forwarded>>
matchVars == <<requested_version, plugin_versions, matchResult>>
gpVars == <<gpPc, gp_config, registries, taskPc, joined, available_plugins,
            cache, wasm_exists, gpRun, first_result, manifest_fetches, file_fetches>>
pathVars == <<pathPc, plugin_id, plugin_registry_id, registry_plugins,
              wasm_files, lookup_key, plugin_directory, available_plugin,
              plugin_dir>>
jobVars == <<jobPc, job_request, job_index, cron_index, timers,
             scheduled_jobs_by_uuid, next_uuid, cron_log>>
sideVars == <<pathVars, jobVars, event>>
passVars == <<cmdVars, matchVars, gpVars, sideVars>>

mainVars == <<mainPc, exitCode, reasonAtExit>>
initVars == <<requests, toInit, plugins, message_create, thread_lists,
              message_components, modals, job_requests, command_requests,
              init_outcome>>
chanVars == <<dbc_js_rx, rx_closed, nextId>>
collabVars == <<js_rx, dbc_rx, jsState, dbcState, scheduled_jobs>>
routerVars == <<routerPc, stack, topState, curMsg, storeLock, depCalls>>
resultVars == <<last_result, dep_result>>
sdVars == <<sdPc, sdType, jsDone, dbcDone, sdStage>>
logVars == <<shutdown_calls, lastStarted, lastCompleted>>
tokenVars == <<SHUTDOWN, cancellation_token>>

\* ---------------------------------------------------------------- helpers
Last(s) == s[Len(s)]
Front(s) == SubSeq(s, 1, Len(s) - 1)

Range(s) == {s[i] : i \in 1..Len(s)}

\* ---------------------------------------------------------------- initial state
\* The state after construction, whatever the plugins' requests are.
Constructed ==
    /\ mainPc = "start"
    /\ exitCode = -1
    /\ reasonAtExit = NoReason
    /\ toInit = ConfigOrder
    /\ plugins = {}
    /\ message_create = <<>>
    /\ thread_lists = [k \in ThreadKinds |-> <<>>]
    /\ message_components = {}
    /\ modals = {}
    /\ job_requests = <<>>
    /\ command_requests = <<>>
    /\ init_outcome = [p \in PluginIds |-> "pending"]
    /\ scheduled_jobs = {}
    /\ SHUTDOWN = NoReason
    /\ cancellation_token = FALSE
    /\ dbc_js_rx = <<>>
    /\ rx_closed = FALSE
    /\ nextId = 1
    /\ js_rx = <<>>
    /\ dbc_rx = <<>>
    /\ jsState = "new"
    /\ dbcState = "new"
    /\ routerPc = "notStarted"
    /\ stack = <<>>
    /\ topState = "none"
    /\ curMsg = NoMsg
    /\ storeLock = [p \in PluginIds |-> FALSE]
    /\ depCalls = 0
    /\ last_result = NoResult
    /\ dep_result = "none"
    /\ sdPc = [c \in Callers |-> "idle"]
    /\ sdType = [c \in Callers |-> NoReason]
    /\ jsDone = [c \in Callers |-> "none"]
    /\ dbcDone = [c \in Callers |-> "none"]
    /\ sdStage = [c \in Callers |-> 0]
    /\ shutdown_calls = [p \in PluginIds |-> 0]
    /\ lastStarted = [p \in PluginIds |-> 0]
    /\ lastCompleted = [p \in PluginIds |-> 0]

\* No application-command pass is under way.
CmdIdle ==
    /\ cmdPc = "idle"
    /\ cmd_request = <<>>
    /\ service = {}
    /\ service0 = {}
    /\ nextCmdId = 1
    /\ discord_commands = {}
    /\ groups = {}
    /\ guildsLeft = <<>>
    /\ skippedGuilds = {}
    /\ work = <<>>
    /\ application_commands = {}
    /\ forwarded = {}

\* No version match is being computed.
MatchIdle ==
    /\ requested_version = "latest"
    /\ plugin_versions = <<>>
    /\ matchResult = "idle"

\* get_plugins is not running.
GpIdle ==
    /\ gpPc = "idle"
    /\ gp_config = [p \in PluginIds |-> [requested |-> "latest", listed |-> FALSE, versions |-> <<>>]]
    /\ registries = "absent"
    /\ taskPc = [p \in PluginIds |-> "idle"]
    /\ joined = 0
    /\ available_plugins = <<>>
    /\ cache = FALSE
    /\ wasm_exists = {}
    /\ gpRun = 1
    /\ first_result = <<>>
    /\ manifest_fetches = 0
    /\ file_fetches = 0

\* No plugin is being followed from its reference to its load.
NoDir == <<"none", "none">>
NoPlugin == [id |-> "none", version |-> "none"]
PathIdle ==
    /\ event = NoEvent
    /\ jobPc = "idle"
    /\ job_request = <<>>
    /\ job_index = 1
    /\ cron_index = 1
    /\ timers = {}
    /\ scheduled_jobs_by_uuid = {}
    /\ next_uuid = 1
    /\ cron_log = {}
    /\ pathPc = "idle"
    /\ plugin_id = "none"
    /\ plugin_registry_id = "none"
    /\ registry_plugins = {}
    /\ wasm_files = {}
    /\ lookup_key = "none"
    /\ plugin_directory = NoDir
    /\ available_plugin = NoPlugin
    /\ plugin_dir = NoDir

Init ==
    /\ requests = [p \in PluginIds |-> ConfiguredRequest(p)]
    /\ Constructed
    /\ CmdIdle
    /\ MatchIdle
    /\ GpIdle
    /\ PathIdle

\* The same program started with arbitrary plugins in the configured places.
RegInit ==
    /\ requests \in {f \in [PluginIds -> UNION {RegistrationRequests(p) : p \in PluginIds}] :
                        \A p \in PluginIds : f[p] \in RegistrationRequests(p)}
    /\ Constructed
    /\ CmdIdle
    /\ MatchIdle
    /\ GpIdle
    /\ PathIdle

\* ---------------------------------------------------------------- main task
\* run(): logger/env setup, Config::new, registry_get_plugins,
\* DiscordBotClient::new, JobScheduler::new, Runtime::new. Every step is
\* followed by `?`, so a failure makes run return Err.
run_setup ==
    /\ mainPc = "start"
    /\ \E ok \in BOOLEAN :
          mainPc' = IF ok THEN "startDbc" ELSE "runReturned"
    /\ UNCHANGED <<exitCode, reasonAtExit, initVars, chanVars, collabVars,
                   routerVars, sdVars, logVars, tokenVars>>
    /\ UNCHANGED <<passVars, resultVars>>

\* discord_bot_client.start(shards): start is an async fn whose future run()
\* does not await, so the client task either runs or the client (and with it
\* the receiver of its channel) is dropped on the spot.
discord_bot_client_start ==
    /\ mainPc = "startDbc"
    /\ \E polled \in BOOLEAN :
          dbcState' = IF polled THEN "running" ELSE "dropped"
    /\ mainPc' = "startJs"
    /\ UNCHANGED <<exitCode, reasonAtExit, initVars, chanVars, js_rx, dbc_rx,
                   jsState, scheduled_jobs, routerVars, sdVars,
                   logVars, tokenVars>>
    /\ UNCHANGED <<passVars, resultVars>>

\* job_scheduler.start().await?
job_scheduler_start ==
    /\ mainPc = "startJs"
    /\ \E ok \in BOOLEAN :
          /\ jsState' = IF ok THEN "running" ELSE "new"
          /\ mainPc' = IF ok THEN "initPlugins" ELSE "runReturned"
    /\ UNCHANGED <<exitCode, reasonAtExit, initVars, chanVars, js_rx, dbc_rx,
                   dbcState, scheduled_jobs, routerVars, sdVars,
                   logVars, tokenVars>>
    /\ UNCHANGED <<passVars, resultVars>>

\* Variant of Subscribe that pushes the plugin whatever its request says.
Subscribe_always(list, p, wanted) == Append(list, p)

\* `if request.discord_events.<kind> { list.push(plugin.id) }`
Subscribe(list, p, wanted) == IF wanted THEN Append(list, p) ELSE list

\* Variant of InsertAll that keeps the entry of an existing key
\* (entry(id).or_insert(plugin.id)).
InsertAll_keep_first(map, ids, p) ==
    map \cup {<<k, p>> : k \in {i \in ids : \A e \in map : e[1] # i}}

\* `for id in ids { map.insert(id, plugin.id) }` on a HashMap held as a set
\* of <<key, value>> pairs: insert replaces the entry of an existing key.
InsertAll(map, ids, p) ==
    {e \in map : e[1] \notin ids} \cup {<<k, p>> : k \in ids}

\* The tail of the loop body of initialize_plugins for a plugin whose
\* initialization succeeded: its registration request is recorded.
Register(p, req) ==
    /\ message_create' = Subscribe(message_create, p, req.message_create)
    /\ message_components' = InsertAll(message_components, req.message_components, p)
    /\ modals' = InsertAll(modals, req.modals, p)
    /\ thread_lists' = [k \in ThreadKinds |->
                            Subscribe(thread_lists[k], p, k \in req.threads)]
    /\ job_requests' = Subscribe(job_requests, p, req.scheduled_job)
    /\ command_requests' = Subscribe(command_requests, p, req.application_command)

\* Where run() is after a pass of the loop that ended with outcome:
\* `fs::read(..).unwrap()` panics on an unreadable plugin.wasm; a failed
\* fs::exists makes initialize_plugins `return Err(())`, which run()
\* propagates with `?`; a failed fs::create_dir is logged and then
\* `preopened_dir(workspace_plugin_dir, ..).unwrap()` panics on the
\* directory that does not exist.
AfterPass(outcome) ==
    IF outcome \in {"unreadable", "workspace_uncreated"} THEN "panicked"
    ELSE IF outcome = "workspace_unchecked" THEN "runReturned"
    ELSE "initPlugins"

\* Variant of initialize_plugin in which a failed initialization does not
\* `continue`: the request of the plugin that is not in the map is recorded.
initialize_plugin_no_continue ==
    /\ mainPc = "initPlugins"
    /\ toInit # <<>>
    /\ LET p == Head(toInit) IN
       \E outcome \in InitOutcomes :
          /\ toInit' = Tail(toInit)
          /\ init_outcome' = [init_outcome EXCEPT ![p] = outcome]
          /\ mainPc' = AfterPass(outcome)
          /\ exitCode' = IF AfterPass(outcome) = "panicked" THEN 101 ELSE exitCode
          /\ IF outcome \in {"loaded", "skipped"}
             THEN /\ plugins' = IF outcome = "loaded" THEN plugins \cup {p} ELSE plugins
                  /\ Register(p, requests[p])
             ELSE UNCHANGED <<plugins, message_create, message_components,
                              modals, thread_lists, job_requests,
                              command_requests>>
    /\ UNCHANGED <<reasonAtExit, requests, chanVars, collabVars, routerVars,
                   sdVars, logVars, tokenVars>>
    /\ UNCHANGED <<passVars, resultVars>>

\* One pass of the `for plugin in plugins` loop of initialize_plugins. Only
\* a plugin whose pass reaches the end of the body is inserted into the map
\* and has its registration request recorded.
initialize_plugin ==
    /\ mainPc = "initPlugins"
    /\ toInit # <<>>
    /\ LET p == Head(toInit) IN
       \E outcome \in InitOutcomes :
          /\ toInit' = Tail(toInit)
          /\ init_outcome' = [init_outcome EXCEPT ![p] = outcome]
          /\ mainPc' = AfterPass(outcome)
          /\ exitCode' = IF AfterPass(outcome) = "panicked" THEN 101 ELSE exitCode
          /\ IF outcome = "loaded"
             THEN /\ plugins' = plugins \cup {p}
                  /\ Register(p, requests[p])
             ELSE UNCHANGED <<plugins, message_create, message_components,
                              modals, thread_lists, job_requests,
                              command_requests>>
    /\ UNCHANGED <<reasonAtExit, requests, chanVars, collabVars, routerVars,
                   sdVars, logVars, tokenVars>>
    /\ UNCHANGED <<passVars, resultVars>>

\* Sends a message on the channel to the discord bot client; the send fails
\* (and the message is dropped) when the receiver is gone.
SendDbc(q, m) == IF dbcState = "dropped" THEN q ELSE Append(q, m)

\* End of initialize_plugins: the accumulated requests are forwarded.
initialize_plugins_finish ==
    /\ mainPc = "initPlugins"
    /\ toInit = <<>>
    /\ dbc_rx' = SendDbc(dbc_rx, [type |-> "Register", caller |-> "main", jobs |-> command_requests])
    /\ js_rx' = Append(js_rx, [type |-> "Register", caller |-> "main", jobs |-> job_requests])
    /\ mainPc' = "startRouter"
    /\ UNCHANGED <<exitCode, reasonAtExit, initVars, chanVars, jsState,
                   dbcState, scheduled_jobs, routerVars, sdVars,
                   logVars, tokenVars>>
    /\ UNCHANGED <<passVars, resultVars>>

\* Variant of Runtime_start in which run() spawns the router before
\* plugin_initializations has returned.
Runtime_start_early ==
    /\ mainPc \in {"initPlugins", "startRouter"}
    /\ routerPc = "notStarted"
    /\ routerPc' = "recv"
    /\ mainPc' = IF mainPc = "startRouter" THEN "waitSignal" ELSE mainPc
    /\ UNCHANGED <<exitCode, reasonAtExit, initVars, chanVars, collabVars,
                   stack, topState, curMsg, storeLock, depCalls, sdVars,
                   logVars, tokenVars>>
    /\ UNCHANGED <<passVars, resultVars>>

\* Runtime::start: spawns the event router task.
Runtime_start ==
    /\ mainPc = "startRouter"
    /\ routerPc' = "recv"
    /\ mainPc' = "waitSignal"
    /\ UNCHANGED <<exitCode, reasonAtExit, initVars, chanVars, collabVars,
                   stack, topState, curMsg, storeLock, depCalls, sdVars,
                   logVars, tokenVars>>
    /\ UNCHANGED <<passVars, resultVars>>

\* The await points of Runtime::shutdown: a future parked there is dropped
\* when the select! around it completes through another branch.
SdYields == {"awaitJS", "awaitDBC", "waitToken"}

\* shutdown() in main.rs, first branch: ctrl_c() resolved and main calls
\* runtime.shutdown(Shutdown::SigInt).
main_ctrl_c ==
    /\ mainPc = "waitSignal"
    /\ mainPc' = "inShutdown"
    /\ sdPc' = [sdPc EXCEPT !["main"] = "check"]
    /\ sdType' = [sdType EXCEPT !["main"] = "SigInt"]
    /\ UNCHANGED <<exitCode, reasonAtExit, initVars, chanVars, collabVars,
                   routerVars, jsDone, dbcDone, sdStage, logVars, tokenVars>>
    /\ UNCHANGED <<passVars, resultVars>>

\* The task shutdown() spawns once the first terminal interrupt arrived:
\* it waits for another one and calls exit(130). It lives until the process
\* ends.
second_ctrl_c ==
    /\ sdType["main"] = "SigInt"
    /\ mainPc \in {"inShutdown", "runReturned", "read2", "restart"}
    /\ mainPc' = "exited"
    /\ exitCode' = 130
    /\ reasonAtExit' = SHUTDOWN
    /\ UNCHANGED <<initVars, chanVars, collabVars, routerVars, sdVars,
                   logVars, tokenVars>>
    /\ UNCHANGED <<passVars, resultVars>>

\* shutdown() in main.rs: ctrl_c() returned an error, run returns Err.
main_ctrl_c_error ==
    /\ mainPc = "waitSignal"
    /\ mainPc' = "runReturned"
    /\ UNCHANGED <<exitCode, reasonAtExit, initVars, chanVars, collabVars,
                   routerVars, sdVars, logVars, tokenVars>>
    /\ UNCHANGED <<passVars, resultVars>>

\* shutdown() in main.rs, second branch: the token was cancelled; the first
\* branch is dropped wherever it is parked.
main_token_cancelled ==
    /\ cancellation_token
    /\ \/ mainPc = "waitSignal" /\ UNCHANGED sdPc
       \/ /\ mainPc = "inShutdown"
          /\ sdPc["main"] \in SdYields
          /\ sdPc' = [sdPc EXCEPT !["main"] = "dropped"]
    /\ mainPc' = "runReturned"
    /\ UNCHANGED <<exitCode, reasonAtExit, initVars, chanVars, collabVars,
                   routerVars, sdType, jsDone, dbcDone, sdStage, logVars,
                   tokenVars>>
    /\ UNCHANGED <<passVars, resultVars>>

\* shutdown() in main.rs: runtime.shutdown(SigInt) returned.
main_shutdown_returned ==
    /\ mainPc = "inShutdown"
    /\ sdPc["main"] = "returned"
    /\ mainPc' = "runReturned"
    /\ UNCHANGED <<exitCode, reasonAtExit, initVars, chanVars, collabVars,
                   routerVars, sdVars, logVars, tokenVars>>
    /\ UNCHANGED <<passVars, resultVars>>

\* main, first read of SHUTDOWN: unwrap() panics on None (exit status 101
\* of a panicking Rust main).
main_read_reason ==
    /\ mainPc = "runReturned"
    /\ IF SHUTDOWN = NoReason
       THEN mainPc' = "panicked" /\ exitCode' = 101 /\ reasonAtExit' = SHUTDOWN
       ELSE /\ mainPc' = IF SHUTDOWN # "Restart" THEN "read2" ELSE "restart"
            /\ UNCHANGED <<exitCode, reasonAtExit>>
    /\ UNCHANGED <<initVars, chanVars, collabVars, routerVars, sdVars,
                   logVars, tokenVars>>
    /\ UNCHANGED <<passVars, resultVars>>

\* The exit code main returns for the reason it reads the second time.
ExitCodeOf(reason) == IF reason = "SigInt" THEN 130 ELSE 0

\* main, second read of SHUTDOWN and return.
main_exit ==
    /\ mainPc = "read2"
    /\ exitCode' = ExitCodeOf(SHUTDOWN)
    /\ reasonAtExit' = SHUTDOWN
    /\ mainPc' = "exited"
    /\ UNCHANGED <<initVars, chanVars, collabVars, routerVars, sdVars,
                   logVars, tokenVars>>
    /\ UNCHANGED <<passVars, resultVars>>

\* restart() and the tail of main: exec replaces the process image, or it
\* (or current_exe) fails and main returns 1.
restart ==
    /\ mainPc = "restart"
    /\ \E execOk \in BOOLEAN :
          /\ mainPc' = IF execOk THEN "reexec" ELSE "exited"
          /\ exitCode' = IF execOk THEN exitCode ELSE 1
    /\ reasonAtExit' = SHUTDOWN
    /\ UNCHANGED <<initVars, chanVars, collabVars, routerVars, sdVars,
                   logVars, tokenVars>>
    /\ UNCHANGED <<passVars, resultVars>>

\* ---------------------------------------------------------------- collaborators
\* A send on the routed-message channel: appended in arrival order unless
\* the receiver was closed, in which case the send fails and is ignored.
SendRouted(q, msgs) == IF rx_closed THEN q ELSE q \o msgs

\* The routed messages handle_event sends for one MessageCreate event: one
\* CallDiscordEvent per subscriber, in list order.
FanOut(subs, first) ==
    [i \in 1..Len(subs) |->
        [id |-> first + i - 1, kind |-> "discord_event", plugin |-> subs[i]]]

\* shard_runner + handle_event for Event::MessageCreate.
handle_event ==
    /\ dbcState \in {"running", "stuck"}
    /\ message_create # <<>>
    /\ nextId + Len(message_create) - 1 <= MaxMsgs
    /\ dbc_js_rx' = SendRouted(dbc_js_rx, FanOut(message_create, nextId))
    /\ nextId' = nextId + Len(message_create)
    /\ UNCHANGED <<mainVars, initVars, rx_closed, collabVars, routerVars,
                   sdVars, logVars, tokenVars>>
    /\ UNCHANGED <<passVars, resultVars>>

\* The timer callback built in scheduled_job_registrations.
job_fired ==
    /\ jsState = "running"
    /\ nextId <= MaxMsgs
    /\ \E p \in scheduled_jobs :
          dbc_js_rx' = SendRouted(dbc_js_rx,
                          <<[id |-> nextId, kind |-> "scheduled_job", plugin |-> p]>>)
    /\ nextId' = nextId + 1
    /\ UNCHANGED <<mainVars, initVars, rx_closed, collabVars, routerVars,
                   sdVars, logVars, tokenVars>>
    /\ UNCHANGED <<passVars, resultVars>>

\* The message loop spawned by JobScheduler::start.
job_scheduler_loop ==
    /\ jsState \in {"running", "shut"}
    /\ js_rx # <<>>
    /\ LET m == Head(js_rx) IN
       /\ js_rx' = Tail(js_rx)
       /\ IF m.type = "Register"
          THEN /\ scheduled_jobs' = scheduled_jobs \cup Range(m.jobs)
               /\ UNCHANGED <<jsState, jsDone>>
          ELSE /\ jsState' = "shut"
               /\ jsDone' = [jsDone EXCEPT ![m.caller] = "acked"]
               /\ UNCHANGED scheduled_jobs
    /\ UNCHANGED <<mainVars, initVars, chanVars, dbc_rx, dbcState, routerVars, sdPc, sdType, dbcDone, sdStage, logVars,
                   tokenVars>>
    /\ UNCHANGED <<passVars, resultVars>>

\* The message loop spawned by DiscordBotClient::start. A Request is
\* answered on its oneshot, which wakes the plugin blocked on it. On Shutdown it
\* closes the registered shard senders and joins the shard tasks; a shard
\* that never registered a sender (its Event::Ready has not been handled)
\* is never closed, so the join never ends and is_done is never sent.
discord_bot_client_loop ==
    /\ dbcState \in {"running", "closed"}
    /\ dbc_rx # <<>>
    /\ LET m == Head(dbc_rx) IN
       /\ dbc_rx' = Tail(dbc_rx)
       /\ IF m.type = "Register"
          THEN UNCHANGED <<dbcState, dbcDone, topState>>
          ELSE IF m.type = "Request"
          THEN /\ topState' = "running"
               /\ UNCHANGED <<dbcState, dbcDone>>
          ELSE \E senderRegistered \in BOOLEAN :
               /\ IF dbcState = "closed" \/ senderRegistered
                  THEN /\ dbcState' = "closed"
                       /\ dbcDone' = [dbcDone EXCEPT ![m.caller] = "acked"]
                  ELSE /\ dbcState' = "stuck"
                       /\ UNCHANGED dbcDone
               /\ UNCHANGED topState
    /\ UNCHANGED <<mainVars, initVars, chanVars, js_rx, jsState,
                   scheduled_jobs, routerPc, stack, curMsg, storeLock,
                   depCalls, sdPc, sdType, jsDone, sdStage, logVars,
                   tokenVars>>
    /\ UNCHANGED <<passVars, resultVars>>

\* ---------------------------------------------------------------- Runtime::shutdown
\* `if SHUTDOWN.read().await.is_some()`: the read guard is released at the
\* end of the condition.
shutdown_check(c) ==
    /\ sdPc[c] = "check"
    /\ sdPc' = [sdPc EXCEPT ![c] = IF SHUTDOWN # NoReason THEN "waitToken" ELSE "write"]
    /\ UNCHANGED <<mainVars, initVars, chanVars, collabVars, routerVars,
                   sdType, jsDone, dbcDone, sdStage, logVars, tokenVars>>
    /\ UNCHANGED <<passVars, resultVars>>

\* `self.cancellation_token.cancelled().await; return;`
shutdown_wait_token(c) ==
    /\ sdPc[c] = "waitToken"
    /\ cancellation_token
    /\ sdPc' = [sdPc EXCEPT ![c] = "returned"]
    /\ UNCHANGED <<mainVars, initVars, chanVars, collabVars, routerVars,
                   sdType, jsDone, dbcDone, sdStage, logVars, tokenVars>>
    /\ UNCHANGED <<passVars, resultVars>>

\* `*SHUTDOWN.write().await = Some(shutdown_type)` and the send of
\* JobSchedulerMessages::Shutdown.
shutdown_write(c) ==
    /\ sdPc[c] = "write"
    /\ SHUTDOWN' = sdType[c]
    /\ js_rx' = Append(js_rx, [type |-> "Shutdown", caller |-> c, jobs |-> <<>>])
    /\ jsDone' = [jsDone EXCEPT ![c] = "pending"]
    /\ sdStage' = [sdStage EXCEPT ![c] = 2]
    /\ sdPc' = [sdPc EXCEPT ![c] = "awaitJS"]
    /\ UNCHANGED <<mainVars, initVars, chanVars, dbc_rx, jsState, dbcState,
                   scheduled_jobs, routerVars, sdType, dbcDone,
                   logVars, cancellation_token>>
    /\ UNCHANGED <<passVars, resultVars>>

\* Variant of shutdown_await_js that does not await the job scheduler's
\* acknowledgement before it sends Shutdown to the discord bot client.
shutdown_await_js_unawaited(c) ==
    /\ sdPc[c] = "awaitJS"
    /\ dbc_rx' = SendDbc(dbc_rx, [type |-> "Shutdown", caller |-> c, jobs |-> <<>>])
    /\ dbcDone' = [dbcDone EXCEPT ![c] = IF dbcState = "dropped" THEN "dropped" ELSE "pending"]
    /\ sdStage' = [sdStage EXCEPT ![c] = 3]
    /\ sdPc' = [sdPc EXCEPT ![c] = "awaitDBC"]
    /\ UNCHANGED <<mainVars, initVars, chanVars, js_rx, jsState, dbcState,
                   scheduled_jobs, routerVars, sdType, jsDone, logVars,
                   tokenVars>>
    /\ UNCHANGED <<passVars, resultVars>>

\* `job_scheduler_is_done.1.await` resolved, then the send of
\* DiscordBotClientMessages::Shutdown; a failed send drops the message and
\* with it the oneshot sender.
shutdown_await_js(c) ==
    /\ sdPc[c] = "awaitJS"
    /\ jsDone[c] \in {"acked", "dropped"}
    /\ dbc_rx' = SendDbc(dbc_rx, [type |-> "Shutdown", caller |-> c, jobs |-> <<>>])
    /\ dbcDone' = [dbcDone EXCEPT ![c] = IF dbcState = "dropped" THEN "dropped" ELSE "pending"]
    /\ sdStage' = [sdStage EXCEPT ![c] = 3]
    /\ sdPc' = [sdPc EXCEPT ![c] = "awaitDBC"]
    /\ UNCHANGED <<mainVars, initVars, chanVars, js_rx, jsState, dbcState,
                   scheduled_jobs, routerVars, sdType, jsDone,
                   logVars, tokenVars>>
    /\ UNCHANGED <<passVars, resultVars>>

\* `discord_bot_client_is_done.1.await` resolved, then
\* `self.cancellation_token.cancel()` and return.
shutdown_await_dbc(c) ==
    /\ sdPc[c] = "awaitDBC"
    /\ dbcDone[c] \in {"acked", "dropped"}
    /\ cancellation_token' = TRUE
    /\ sdStage' = [sdStage EXCEPT ![c] = 4]
    /\ sdPc' = [sdPc EXCEPT ![c] = "returned"]
    /\ UNCHANGED <<mainVars, initVars, chanVars, collabVars, routerVars,
                   sdType, jsDone, dbcDone, logVars, SHUTDOWN>>
    /\ UNCHANGED <<passVars, resultVars>>

\* ---------------------------------------------------------------- event router
\* Number of frames of the call chain that are inside a plugin store: every
\* frame but an innermost one still waiting for the store mutex.
Entered == IF topState = "lockWait" THEN Len(stack) - 1 ELSE Len(stack)

\* The plugins whose store mutex guard the call chain owns.
Held == {stack[i] : i \in 1..Entered}

\* Dropping the call chain's future (select! or unwinding) drops its guards.
ReleaseAll == [p \in PluginIds |-> storeLock[p] /\ p \notin Held]

\* Variant of router_recv that takes the newest queued message instead of
\* the oldest.
router_recv_newest ==
    /\ routerPc = "recv"
    /\ dbc_js_rx # <<>>
    /\ LET m == Last(dbc_js_rx) IN
       /\ dbc_js_rx' = Front(dbc_js_rx)
       /\ IF m.plugin \in plugins
          THEN /\ routerPc' = "calling"
               /\ stack' = <<m.plugin>>
               /\ topState' = "lockWait"
               /\ curMsg' = m
          ELSE /\ routerPc' = "panicked"
               /\ UNCHANGED <<stack, topState, curMsg>>
    /\ UNCHANGED <<mainVars, initVars, rx_closed, nextId, collabVars,
                   storeLock, depCalls, sdVars, logVars, tokenVars>>
    /\ UNCHANGED <<passVars, resultVars>>

\* The router's loop: `dbc_js_rx.recv().await` yields the oldest message and
\* call_discord_event / call_scheduled_job looks the plugin up
\* (`plugins.get(..).unwrap()`) before locking its store.
router_recv ==
    /\ routerPc = "recv"
    /\ dbc_js_rx # <<>>
    /\ LET m == Head(dbc_js_rx) IN
       /\ dbc_js_rx' = Tail(dbc_js_rx)
       /\ IF m.plugin \in plugins
          THEN /\ routerPc' = "calling"
               /\ stack' = <<m.plugin>>
               /\ topState' = "lockWait"
               /\ curMsg' = m
          ELSE /\ routerPc' = "panicked"
               /\ UNCHANGED <<stack, topState, curMsg>>
    /\ UNCHANGED <<mainVars, initVars, rx_closed, nextId, collabVars,
                   storeLock, depCalls, sdVars, logVars, tokenVars>>
    /\ UNCHANGED <<passVars, resultVars>>

\* Variant of store_lock that enters the export without waiting for the
\* store mutex to be free.
store_lock_unchecked ==
    /\ routerPc = "calling"
    /\ topState = "lockWait"
    /\ LET p == Last(stack) IN
       /\ storeLock' = [storeLock EXCEPT ![p] = TRUE]
       /\ lastStarted' = IF Len(stack) = 1
                         THEN [lastStarted EXCEPT ![p] = curMsg.id]
                         ELSE lastStarted
    /\ topState' = "running"
    /\ UNCHANGED <<mainVars, initVars, chanVars, collabVars, routerPc, stack,
                   curMsg, depCalls, sdVars, shutdown_calls, lastCompleted,
                   tokenVars>>
    /\ UNCHANGED <<passVars, resultVars>>

\* `plugin.store.lock().await` of call_discord_event, call_scheduled_job and
\* the dependency host call; the export is entered with the guard held.
store_lock ==
    /\ routerPc = "calling"
    /\ topState = "lockWait"
    /\ LET p == Last(stack) IN
       /\ ~storeLock[p]
       /\ storeLock' = [storeLock EXCEPT ![p] = TRUE]
       /\ lastStarted' = IF Len(stack) = 1
                         THEN [lastStarted EXCEPT ![p] = curMsg.id]
                         ELSE lastStarted
    /\ topState' = "running"
    /\ UNCHANGED <<mainVars, initVars, chanVars, collabVars, routerPc, stack,
                   curMsg, depCalls, sdVars, shutdown_calls, lastCompleted,
                   tokenVars>>
    /\ UNCHANGED <<passVars, resultVars>>

\* Variant of export_return in which the router task does not survive a
\* plugin error or a trap of a routed call.
export_return_fatal ==
    /\ routerPc = "calling"
    /\ topState = "running"
    /\ \E result \in ExportResults :
          IF Len(stack) = 1
          THEN /\ last_result' = [plugin |-> curMsg.plugin, kind |-> result]
               /\ storeLock' = [storeLock EXCEPT ![Last(stack)] = FALSE]
               /\ stack' = Front(stack)
               /\ routerPc' = IF result = "ok" THEN "recv" ELSE "panicked"
               /\ topState' = "none"
               /\ curMsg' = NoMsg
               /\ lastCompleted' = [lastCompleted EXCEPT ![curMsg.plugin] = curMsg.id]
               /\ UNCHANGED dep_result
          ELSE IF result = "trap"
          THEN /\ dep_result' = "trap_panic"
               /\ routerPc' = "panicked"
               /\ storeLock' = ReleaseAll
               /\ stack' = <<>>
               /\ topState' = "none"
               /\ curMsg' = NoMsg
               /\ UNCHANGED <<last_result, lastCompleted>>
          ELSE /\ dep_result' = IF result = "ok" THEN "Ok" ELSE "Err"
               /\ storeLock' = [storeLock EXCEPT ![Last(stack)] = FALSE]
               /\ stack' = Front(stack)
               /\ UNCHANGED <<routerPc, topState, curMsg, last_result, lastCompleted>>
    /\ UNCHANGED <<mainVars, initVars, chanVars, collabVars, depCalls, sdVars,
                   shutdown_calls, lastStarted, tokenVars>>
    /\ UNCHANGED passVars

\* The export returns and the guard is dropped. The outermost return
\* (call_discord_event, call_scheduled_job) only logs a plugin error or a
\* trap and sends the router back to recv. The return of a dependency
\* call hands Ok or Err to the calling plugin, except that a trap of the
\* target panics in `call_dependency(..).await.unwrap()`.
export_return ==
    /\ routerPc = "calling"
    /\ topState = "running"
    /\ \E result \in ExportResults :
          IF Len(stack) = 1
          THEN /\ last_result' = [plugin |-> curMsg.plugin, kind |-> result]
               /\ storeLock' = [storeLock EXCEPT ![Last(stack)] = FALSE]
               /\ stack' = Front(stack)
               /\ routerPc' = "recv"
               /\ topState' = "none"
               /\ curMsg' = NoMsg
               /\ lastCompleted' = [lastCompleted EXCEPT ![curMsg.plugin] = curMsg.id]
               /\ UNCHANGED dep_result
          ELSE IF result = "trap"
          THEN /\ dep_result' = "trap_panic"
               /\ routerPc' = "panicked"
               /\ storeLock' = ReleaseAll
               /\ stack' = <<>>
               /\ topState' = "none"
               /\ curMsg' = NoMsg
               /\ UNCHANGED <<last_result, lastCompleted>>
          ELSE /\ dep_result' = IF result = "ok" THEN "Ok" ELSE "Err"
               /\ storeLock' = [storeLock EXCEPT ![Last(stack)] = FALSE]
               /\ stack' = Front(stack)
               /\ UNCHANGED <<routerPc, topState, curMsg, last_result, lastCompleted>>
    /\ UNCHANGED <<mainVars, initVars, chanVars, collabVars, depCalls, sdVars,
                   shutdown_calls, lastStarted, tokenVars>>
    /\ UNCHANGED passVars

\* HostWithStoreFunctions::dependency: `plugins.get(&dependency).unwrap()`
\* panics the router task when the target is not loaded; otherwise the
\* caller waits for the target's store mutex.
host_dependency ==
    /\ routerPc = "calling"
    /\ topState = "running"
    /\ depCalls < MaxDepCalls
    /\ depCalls' = depCalls + 1
    /\ \E q \in PluginIds :
          IF q \in plugins
          THEN /\ stack' = Append(stack, q)
               /\ topState' = "lockWait"
               /\ UNCHANGED <<routerPc, storeLock, curMsg, dep_result>>
          ELSE /\ routerPc' = "panicked"
               /\ dep_result' = "missing_panic"
               /\ storeLock' = ReleaseAll
               /\ stack' = <<>>
               /\ topState' = "none"
               /\ curMsg' = NoMsg
    /\ UNCHANGED <<mainVars, initVars, chanVars, collabVars, sdVars, logVars,
                   tokenVars, last_result>>
    /\ UNCHANGED passVars

\* HostWithStoreFunctions::discord_request: the request is sent to the
\* discord bot client and the worker thread blocks (block_on) until the
\* reply arrives; with the receiver gone the send fails and the call
\* returns Err at once, changing nothing.
host_discord_request ==
    /\ routerPc = "calling"
    /\ topState = "running"
    /\ dbcState # "dropped"
    /\ dbc_rx' = Append(dbc_rx, [type |-> "Request", caller |-> "plugin", jobs |-> <<>>])
    /\ topState' = "hostRequest"
    /\ UNCHANGED <<mainVars, initVars, chanVars, js_rx, jsState, dbcState,
                   scheduled_jobs, routerPc, stack, curMsg, storeLock,
                   depCalls, sdVars, logVars, tokenVars>>
    /\ UNCHANGED <<passVars, resultVars>>

\* HostWithStoreFunctions::shutdown(restart): the plugin calls
\* Runtime::shutdown from inside its export.
host_shutdown ==
    /\ routerPc = "calling"
    /\ topState = "running"
    /\ sdPc["plugin"] = "idle"
    /\ \E restartFlag \in BOOLEAN :
          sdType' = [sdType EXCEPT !["plugin"] = IF restartFlag THEN "Restart" ELSE "Normal"]
    /\ sdPc' = [sdPc EXCEPT !["plugin"] = "check"]
    /\ topState' = "hostShutdown"
    /\ UNCHANGED <<mainVars, initVars, chanVars, collabVars, routerPc, stack,
                   curMsg, storeLock, depCalls, jsDone, dbcDone, sdStage,
                   logVars, tokenVars>>
    /\ UNCHANGED <<passVars, resultVars>>

\* Runtime::shutdown returned to the plugin, which runs on.
host_shutdown_return ==
    /\ routerPc = "calling"
    /\ topState = "hostShutdown"
    /\ sdPc["plugin"] = "returned"
    /\ sdPc' = [sdPc EXCEPT !["plugin"] = "idle"]
    /\ topState' = "running"
    /\ UNCHANGED <<mainVars, initVars, chanVars, collabVars, routerPc, stack,
                   curMsg, storeLock, depCalls, sdType, jsDone, dbcDone,
                   sdStage, logVars, tokenVars>>
    /\ UNCHANGED <<passVars, resultVars>>

\* Variant of RouterParked in which the token is looked at only between
\* two messages, never while a call is in progress.
RouterParked_between_messages == routerPc = "recv"

\* The router's future is parked: in recv, on a held store mutex, or inside
\* an await of Runtime::shutdown.
RouterParked ==
    \/ routerPc = "recv"
    \/ /\ routerPc = "calling"
       /\ \/ topState = "lockWait" /\ storeLock[Last(stack)]
          \/ topState = "hostShutdown" /\ sdPc["plugin"] \in SdYields

\* select! in Runtime::start, second branch: the token is cancelled, the
\* message loop (with any call in progress) is dropped and the receiver is
\* closed.
router_cancelled ==
    /\ cancellation_token
    /\ RouterParked
    /\ routerPc' = "done"
    /\ rx_closed' = TRUE
    /\ storeLock' = ReleaseAll
    /\ stack' = <<>>
    /\ topState' = "none"
    /\ curMsg' = NoMsg
    /\ sdPc' = [sdPc EXCEPT !["plugin"] =
                   IF topState = "hostShutdown" THEN "dropped" ELSE @]
    /\ UNCHANGED <<mainVars, initVars, dbc_js_rx, nextId, collabVars,
                   depCalls, sdType, jsDone, dbcDone, sdStage, logVars,
                   tokenVars>>
    /\ UNCHANGED <<passVars, resultVars>>

\* ---------------------------------------------------------------- application commands
\* HashMap::insert on a map held as a set of <<key, value>> pairs.
MapInsert(map, k, v) == {e \in map : e[1] # k} \cup {<<k, v>>}

\* The registration request of initialize_plugins: the commands the plugins
\* declared, in initialization order (runtime.rs pushes them plugin by
\* plugin).
RequestOf(declared) ==
    LET all == [i \in 1..Len(ConfigOrder) |->
                   [plugin_id |-> ConfigOrder[i], internal_id |-> "c",
                    name |-> declared[ConfigOrder[i]].name,
                    scope |-> declared[ConfigOrder[i]].scope,
                    valid |-> declared[ConfigOrder[i]].valid]]
    IN SelectSeq(all, LAMBDA c : declared[c.plugin_id] # NoCommand)

\* The first loop of application_command_registrations: requests whose data
\* does not deserialize are skipped, the others are grouped by guild (or
\* global) and name, each group a Vec in request order.
group_requests ==
    /\ cmdPc = "start"
    /\ groups' =
          {g \in {[scope |-> sc, name |-> n,
                   entries |-> SelectSeq(cmd_request,
                                  LAMBDA c : c.valid /\ c.scope = sc /\ c.name = n)] :
                      sc \in CmdScopes, n \in CmdNames} :
              g.entries # <<>>}
    /\ cmdPc' = "fetchApplication"
    /\ UNCHANGED <<progVars, sideVars, matchVars, gpVars, cmd_request, service, service0, nextCmdId,
                   discord_commands, guildsLeft, skippedGuilds, work, application_commands,
                   forwarded>>

\* current_user_application(): an error ends the pass with Err.
fetch_application ==
    /\ cmdPc = "fetchApplication"
    /\ \E ok \in BOOLEAN :
          cmdPc' = IF ok THEN "fetchGlobal" ELSE "failed"
    /\ UNCHANGED <<progVars, sideVars, matchVars, gpVars, cmd_request, service, service0, nextCmdId,
                   discord_commands, groups, guildsLeft, skippedGuilds, work,
                   application_commands, forwarded>>

\* `for command in fetched { discord_commands.insert(command.name, command) }`
\* for the commands of one scope (their names are distinct, so the order of
\* the inserts does not matter).
InsertFetched(map, scope) ==
    LET fetched == {c \in service : c.scope = scope}
    IN {e \in map : \A c \in fetched : c.name # e[1]}
           \cup {<<c.name, c>> : c \in fetched}

\* GetGlobalCommands: an error ends the pass with Err.
fetch_global_commands ==
    /\ cmdPc = "fetchGlobal"
    /\ \E ok \in BOOLEAN :
          IF ok
          THEN /\ discord_commands' = InsertFetched(discord_commands, "global")
               /\ cmdPc' = "fetchGuilds"
          ELSE /\ cmdPc' = "failed"
               /\ UNCHANGED discord_commands
    /\ UNCHANGED <<progVars, sideVars, matchVars, gpVars, cmd_request, service, service0, nextCmdId,
                   groups, guildsLeft, skippedGuilds, work, application_commands, forwarded>>

\* current_user_guilds(): an error ends the pass with Err.
fetch_user_guilds ==
    /\ cmdPc = "fetchGuilds"
    /\ \E ok \in BOOLEAN :
          IF ok
          THEN /\ guildsLeft' = Guilds
               /\ cmdPc' = IF Guilds = <<>> THEN "register" ELSE "fetchGuild"
          ELSE /\ cmdPc' = "failed"
               /\ UNCHANGED guildsLeft
    /\ UNCHANGED skippedGuilds
    /\ UNCHANGED <<progVars, sideVars, matchVars, gpVars, cmd_request, service, service0, nextCmdId,
                   discord_commands, groups, work, application_commands,
                   forwarded>>

\* One pass of `for current_user_guild in current_user_guilds`:
\* GetGuildCommands; an error is logged and the guild is skipped.
fetch_guild_commands ==
    /\ cmdPc = "fetchGuild"
    /\ \E ok \in BOOLEAN :
          /\ discord_commands' =
                IF ok THEN InsertFetched(discord_commands, Head(guildsLeft))
                ELSE discord_commands
          /\ skippedGuilds' =
                IF ok THEN skippedGuilds ELSE skippedGuilds \cup {Head(guildsLeft)}
    /\ guildsLeft' = Tail(guildsLeft)
    /\ cmdPc' = IF Tail(guildsLeft) = <<>> THEN "register" ELSE "fetchGuild"
    /\ UNCHANGED <<progVars, sideVars, matchVars, gpVars, cmd_request, service, service0, nextCmdId,
                   groups, work, application_commands, forwarded>>

\* The name under which the i-th entry (from 1) of a group of k entries is
\* sent: unchanged for a group of one, otherwise
\* `name += format!("~{command_name_occurence_count}")` with the count
\* starting at 1.
ForwardedName(name, i, k) ==
    IF k = 1 THEN name ELSE name \o "~" \o ToString(i)

\* `for global_commands_by_name in global_commands` followed by the two
\* loops over guild_commands: the next group is taken in HashMap order (any
\* order), the global groups before the guild groups.
visit_group ==
    /\ cmdPc = "register"
    /\ work = <<>>
    /\ \E g \in groups :
          /\ g.scope = "global" \/ \A h \in groups : h.scope # "global"
          /\ groups' = groups \ {g}
          /\ work' = [i \in 1..Len(g.entries) |->
                         [plugin_id |-> g.entries[i].plugin_id,
                          internal_id |-> g.entries[i].internal_id,
                          scope |-> g.scope,
                          declared |-> g.name,
                          name |-> ForwardedName(g.name, i, Len(g.entries))]]
    /\ UNCHANGED <<progVars, sideVars, matchVars, gpVars, cmdPc, cmd_request, service, service0, nextCmdId,
                   discord_commands, guildsLeft, skippedGuilds, application_commands,
                   forwarded>>

\* The scope the create request of register_global_application_command and
\* register_guild_application_command addresses: both build
\* Route::CreateGlobalCommand.
CreateRouteScope(scope) == "global"

\* register_global_application_command / register_guild_application_command
\* for the next entry and the insert of the returned id. The command found
\* under the name in discord_commands is removed and updated by its id in
\* the entry's scope; with none found the command is created. The chat
\* service answers an update of an id it does not hold in that scope with an
\* error, and a create of a name it already holds in the addressed scope by
\* overwriting that command and returning its id. Any request may fail.
register_command ==
    /\ cmdPc = "register"
    /\ work # <<>>
    /\ LET w == Head(work)
           found == {e \in discord_commands : e[1] = w.name}
           target == CreateRouteScope(w.scope)
           held == {c \in service : c.scope = target /\ c.name = w.name}
       IN \E sent \in BOOLEAN :
          LET id == IF ~sent THEN 0
                    ELSE IF found # {}
                    THEN (LET d == (CHOOSE e \in found : TRUE)[2]
                          IN IF \E c \in service : c.id = d.id /\ c.scope = w.scope
                             THEN d.id ELSE 0)
                    ELSE IF held # {} THEN (CHOOSE c \in held : TRUE).id
                    ELSE nextCmdId
          IN /\ discord_commands' = discord_commands \ found
             /\ service' = IF id = nextCmdId
                           THEN service \cup {[id |-> id, scope |-> target, name |-> w.name]}
                           ELSE service
             /\ nextCmdId' = IF id = nextCmdId THEN nextCmdId + 1 ELSE nextCmdId
             /\ application_commands' =
                   IF id # 0
                   THEN MapInsert(application_commands, id, <<w.plugin_id, w.internal_id>>)
                   ELSE application_commands
             /\ forwarded' = forwarded \cup
                   {[plugin_id |-> w.plugin_id, internal_id |-> w.internal_id,
                     scope |-> w.scope, declared |-> w.declared,
                     name |-> w.name, sent |-> sent, id |-> id]}
    /\ work' = Tail(work)
    /\ UNCHANGED <<progVars, sideVars, matchVars, gpVars, cmdPc, cmd_request, service0, groups, guildsLeft, skippedGuilds>>

\* All groups were visited: delete_old_application_commands is called.
registrations_done ==
    /\ cmdPc = "register"
    /\ work = <<>>
    /\ groups = {}
    /\ cmdPc' = "delete"
    /\ UNCHANGED <<progVars, sideVars, matchVars, gpVars, cmd_request, service, service0, nextCmdId,
                   discord_commands, groups, guildsLeft, skippedGuilds, work,
                   application_commands, forwarded>>

\* One pass of `for discord_command in discord_commands.values()`: the
\* command is deleted by its id on the route of its own guild_id; an error
\* ends the pass with Err.
delete_old_application_command ==
    /\ cmdPc = "delete"
    /\ \E e \in discord_commands :
       \E sent \in BOOLEAN :
          /\ discord_commands' = discord_commands \ {e}
          /\ IF sent /\ \E c \in service : c.id = e[2].id /\ c.scope = e[2].scope
             THEN /\ service' = {c \in service : c.id # e[2].id}
                  /\ UNCHANGED cmdPc
             ELSE /\ cmdPc' = "failed"
                  /\ UNCHANGED service
    /\ UNCHANGED <<progVars, sideVars, matchVars, gpVars, cmd_request, service0, nextCmdId, groups,
                   guildsLeft, skippedGuilds, work, application_commands, forwarded>>

\* The loop of delete_old_application_commands ended: the pass returns Ok.
registrations_return ==
    /\ cmdPc = "delete"
    /\ discord_commands = {}
    /\ cmdPc' = "done"
    /\ UNCHANGED <<progVars, sideVars, matchVars, gpVars, cmd_request, service, service0, nextCmdId,
                   discord_commands, groups, guildsLeft, skippedGuilds, work,
                   application_commands, forwarded>>

\* ---------------------------------------------------------------- registry resolution
\* check_plugin_version_usability: a deprecated version is not usable;
\* otherwise compatible_program_version is compared with
\* CARGO_PKG_VERSION[..compatible_program_version.len()], a slice that
\* panics when it is longer than the host's version.
check_plugin_version_usability(plugin_version) ==
    IF plugin_version.deprecated = "true" THEN "unusable"
    ELSE IF Len(plugin_version.compatible_program_version) > Len(HostVersion)
    THEN "panic"
    ELSE IF plugin_version.compatible_program_version
               # SubSeq(HostVersion, 1, Len(plugin_version.compatible_program_version))
    THEN "unusable"
    ELSE "usable"

\* `for plugin_version in plugin_versions.iter().rev()` from position i down.
RECURSIVE LatestUsable(_, _)
LatestUsable(versions, i) ==
    IF i = 0 THEN "None"
    ELSE LET usability == check_plugin_version_usability(versions[i])
         IN IF usability = "panic" THEN "Panic"
            ELSE IF usability = "usable" THEN versions[i].version
            ELSE LatestUsable(versions, i - 1)

\* find_plugin_version_match: for "latest" the newest usable version,
\* otherwise the first version whose string equals the request, if usable.
find_plugin_version_match(requested, versions) ==
    IF requested = "latest" THEN LatestUsable(versions, Len(versions))
    ELSE LET hits == {i \in 1..Len(versions) : versions[i].version = requested}
         IN IF hits = {} THEN "None"
            ELSE LET first == CHOOSE i \in hits : \A j \in hits : i <= j
                     usability == check_plugin_version_usability(versions[first])
                 IN IF usability = "panic" THEN "Panic"
                    ELSE IF usability = "usable" THEN versions[first].version
                    ELSE "None"

\* The call of find_plugin_version_match on the drawn arguments.
find_version ==
    /\ matchResult = "pending"
    /\ matchResult' = find_plugin_version_match(requested_version, plugin_versions)
    /\ UNCHANGED <<progVars, sideVars, cmdVars, gpVars, requested_version, plugin_versions>>

\* A task of get_plugins, first condition: is the registry in the cache?
task_check_registry(p) ==
    /\ taskPc[p] = "start"
    /\ taskPc' = [taskPc EXCEPT ![p] = IF registries = "absent" THEN "fetch" ELSE "resolve"]
    /\ UNCHANGED <<progVars, sideVars, cmdVars, matchVars, gpPc, gp_config, registries,
                   joined, available_plugins, cache, wasm_exists, gpRun,
                   first_result, manifest_fetches, file_fetches>>

\* fetch_registry: the manifest is downloaded and deserialized and the
\* cache entry is inserted, None on failure (and the task returns Err).
fetch_registry(p) ==
    /\ taskPc[p] = "fetch"
    /\ manifest_fetches' = manifest_fetches + 1
    /\ \E ok \in BOOLEAN :
          /\ registries' = IF ok THEN "Some" ELSE "None"
          /\ taskPc' = [taskPc EXCEPT ![p] = IF ok THEN "resolve" ELSE "Err"]
    /\ UNCHANGED <<progVars, sideVars, cmdVars, matchVars, gpPc, gp_config, joined,
                   available_plugins, cache, wasm_exists, gpRun, first_result,
                   file_fetches>>

\* `plugin_options.cache.unwrap_or(cache) && fs::exists(plugin.wasm)`
Cached(p) == cache /\ p \in wasm_exists

\* The task from the read of the cache entry to the cache check of the
\* plugin directory: an invalid registry, a missing plugin entry and no
\* matching version return Err; a panic ends the task; a cached
\* plugin.wasm returns Ok at once.
task_resolve(p) ==
    /\ taskPc[p] = "resolve"
    /\ LET version == IF ~gp_config[p].listed THEN "None"
                      ELSE find_plugin_version_match(gp_config[p].requested,
                                                     gp_config[p].versions)
       IN taskPc' = [taskPc EXCEPT ![p] =
                        IF registries = "None" \/ version = "None" THEN "Err"
                        ELSE IF version = "Panic" THEN "Panicked"
                        ELSE IF Cached(p) THEN "Ok" ELSE "download"]
    /\ UNCHANGED <<progVars, sideVars, cmdVars, matchVars, gpPc, gp_config, registries,
                   joined, available_plugins, cache, wasm_exists, gpRun,
                   first_result, manifest_fetches, file_fetches>>

\* The rest of the task: metadata.json and plugin.wasm are downloaded and
\* written; any failure returns Err.
task_download(p) ==
    /\ taskPc[p] = "download"
    /\ file_fetches' = file_fetches + 1
    /\ \E ok \in BOOLEAN :
          /\ taskPc' = [taskPc EXCEPT ![p] = IF ok THEN "Ok" ELSE "Err"]
          /\ wasm_exists' = IF ok THEN wasm_exists \cup {p} ELSE wasm_exists
    /\ UNCHANGED <<progVars, sideVars, cmdVars, matchVars, gpPc, gp_config, registries,
                   joined, available_plugins, cache, gpRun, first_result,
                   manifest_fetches>>

\* One pass of `for task in tasks.drain(..)`: `task.await.unwrap()` panics
\* on the JoinError of a task that panicked; the plugin of a task that
\* returned Ok is pushed.
join_task ==
    /\ gpPc = "joining"
    /\ joined < Len(ConfigOrder)
    /\ LET p == ConfigOrder[joined + 1] IN
       /\ taskPc[p] \in {"Ok", "Err", "Panicked"}
       /\ gpPc' = IF taskPc[p] = "Panicked" THEN "panicked" ELSE gpPc
       /\ available_plugins' =
             IF taskPc[p] = "Ok"
             THEN Append(available_plugins,
                         [id |-> p,
                          version |-> find_plugin_version_match(gp_config[p].requested,
                                                                gp_config[p].versions)])
             ELSE available_plugins
    /\ joined' = joined + 1
    /\ UNCHANGED <<progVars, sideVars, cmdVars, matchVars, gp_config, registries, taskPc,
                   cache, wasm_exists, gpRun, first_result, manifest_fetches,
                   file_fetches>>

\* `Ok(available_plugins)`
get_plugins_return ==
    /\ gpPc = "joining"
    /\ joined = Len(ConfigOrder)
    /\ gpPc' = "returned"
    /\ UNCHANGED <<progVars, sideVars, cmdVars, matchVars, gp_config, registries, taskPc,
                   joined, available_plugins, cache, wasm_exists, gpRun,
                   first_result, manifest_fetches, file_fetches>>

\* The program is run again with the same configuration and the same
\* plugin directory: get_plugins starts with a new, empty registries map
\* and spawns a task per configured plugin.
get_plugins_again ==
    /\ gpPc = "returned"
    /\ gpRun = 1
    /\ gpRun' = 2
    /\ first_result' = available_plugins
    /\ gpPc' = "joining"
    /\ registries' = "absent"
    /\ taskPc' = [p \in PluginIds |-> "start"]
    /\ joined' = 0
    /\ available_plugins' = <<>>
    /\ manifest_fetches' = 0
    /\ file_fetches' = 0
    /\ UNCHANGED <<progVars, sideVars, cmdVars, matchVars, gp_config, cache, wasm_exists>>

\* ---------------------------------------------------------------- gateway events
\* The subscriber list an arm of handle_event iterates:
\* plugin_registrations.discord_events.<kind>.
Subscribers(kind) ==
    IF kind = "message_create" THEN message_create ELSE thread_lists[kind]

\* Variant of FanOutOf that sends to the first subscriber only.
FanOutOf_first_only(ev, subs, first) ==
    [i \in 1..(IF subs = <<>> THEN 0 ELSE 1) |->
        [id |-> first + i - 1, kind |-> "discord_event", plugin |-> subs[i],
         event |-> ev.kind, payload |-> ev.payload]]

\* The routed messages one arm sends: `for plugin in <list>.iter()` sends
\* CallDiscordEvent(plugin.clone(), DiscordEvents::<Kind>(to_vec(&event))).
FanOutOf(ev, subs, first) ==
    [i \in 1..Len(subs) |->
        [id |-> first + i - 1, kind |-> "discord_event", plugin |-> subs[i],
         event |-> ev.kind, payload |-> ev.payload]]

\* handle_event for Event::MessageCreate and the six Event::Thread* arms.
handle_subscribed_event ==
    /\ dbcState \in {"running", "stuck"}
    /\ \E ev \in {e \in SubscribedEvents : e.payload = nextId} :
          /\ nextId + Len(Subscribers(ev.kind)) - 1 <= MaxMsgs
          /\ event' = ev
          /\ dbc_js_rx' = SendRouted(dbc_js_rx, FanOutOf(ev, Subscribers(ev.kind), nextId))
          /\ nextId' = nextId + Len(Subscribers(ev.kind))
    /\ UNCHANGED <<mainVars, initVars, rx_closed, collabVars, routerVars,
                   sdVars, logVars, tokenVars, resultVars>>
    /\ UNCHANGED <<cmdVars, matchVars, gpVars, pathVars, jobVars>>

\* The keys of interaction_create.application_commands are command ids
\* (Id<CommandMarker>); the key handle_event presents is a command name.
IdKey(id) == <<"id", id>>
NameKey(name) == <<"name", name>>

\* The plugin the InteractionCreate arm finds, as a set (empty: the `else`
\* branch returns): application_commands.get(&command_data.name),
\* message_components.get(&custom_id), modals.get(&custom_id); no data and
\* other data types are logged.
InteractionTarget(ev) ==
    IF ev.data = "application_command"
    THEN {e[2][1] : e \in {x \in application_commands : IdKey(x[1]) = NameKey(ev.name)}}
    ELSE IF ev.data = "message_component"
    THEN {e[2] : e \in {x \in message_components : x[1] = ev.custom_id}}
    ELSE IF ev.data = "modal_submit"
    THEN {e[2] : e \in {x \in modals : x[1] = ev.custom_id}}
    ELSE {}

\* handle_event for Event::InteractionCreate: one CallDiscordEvent to the
\* plugin found, nothing when none is found.
handle_interaction_create ==
    /\ dbcState \in {"running", "stuck"}
    /\ \E ev \in {e \in InteractionEvents : e.payload = nextId} :
          LET target == InteractionTarget(ev) IN
          /\ nextId + Cardinality(target) - 1 <= MaxMsgs
          /\ event' = ev
          /\ dbc_js_rx' = SendRouted(dbc_js_rx,
                             IF target = {} THEN <<>>
                             ELSE <<[id |-> nextId, kind |-> "discord_event",
                                     plugin |-> CHOOSE q \in target : TRUE,
                                     event |-> ev.kind, payload |-> ev.payload]>>)
          /\ nextId' = nextId + Cardinality(target)
    /\ UNCHANGED <<mainVars, initVars, rx_closed, collabVars, routerVars,
                   sdVars, logVars, tokenVars, resultVars>>
    /\ UNCHANGED <<cmdVars, matchVars, gpVars, pathVars, jobVars>>

\* ---------------------------------------------------------------- scheduled jobs
\* Where the loops of scheduled_job_registrations are after the pass at
\* (job, cron): the next cron of the job, else the first job after it that
\* has crons, else past the end.
NextPass(job, cron) ==
    IF job \in 1..Len(job_request) /\ cron < Len(job_request[job].crons)
    THEN <<job, cron + 1>>
    ELSE LET later == {j \in (job + 1)..Len(job_request) : job_request[j].crons # <<>>}
         IN IF later = {} THEN <<Len(job_request) + 1, 1>>
            ELSE <<CHOOSE j \in later : \A k \in later : j <= k, 1>>

\* Entry of scheduled_job_registrations.
registrations_start ==
    /\ jobPc = "idle"
    /\ job_request # <<>>
    /\ jobPc' = "registering"
    /\ job_index' = NextPass(0, 0)[1]
    /\ cron_index' = 1
    /\ UNCHANGED <<progVars, cmdVars, matchVars, gpVars, pathVars, event,
                   job_request, timers, scheduled_jobs_by_uuid, next_uuid,
                   cron_log>>

\* Variant of register_cron in which a rejected cron expression ends the
\* registrations (`return` in the place of `continue`).
register_cron_return ==
    /\ jobPc = "registering"
    /\ job_index <= Len(job_request)
    /\ LET job == job_request[job_index]
           cron == job.crons[cron_index]
       IN \E added \in BOOLEAN :
          LET outcome == IF cron = "invalid" THEN "rejected"
                         ELSE IF added THEN "added" ELSE "add_failed"
              uuid == IF outcome = "added" THEN next_uuid ELSE 0
          IN /\ cron_log' = cron_log \cup {[job |-> job_index, cron |-> cron_index,
                                              outcome |-> outcome, uuid |-> uuid]}
             /\ next_uuid' = IF cron = "valid" THEN next_uuid + 1 ELSE next_uuid
             /\ timers' = IF outcome = "added"
                          THEN timers \cup {[uuid |-> uuid, plugin_id |-> job.plugin_id,
                                             internal_id |-> job.internal_id]}
                          ELSE timers
             /\ scheduled_jobs_by_uuid' =
                   IF outcome = "added"
                   THEN scheduled_jobs_by_uuid \cup {<<uuid, <<job.plugin_id, job.internal_id>>>>}
                   ELSE scheduled_jobs_by_uuid
             /\ job_index' = IF outcome = "rejected" THEN Len(job_request) + 1
                             ELSE NextPass(job_index, cron_index)[1]
             /\ cron_index' = IF outcome = "rejected" THEN 1
                              ELSE NextPass(job_index, cron_index)[2]
    /\ UNCHANGED <<progVars, cmdVars, matchVars, gpVars, pathVars, event,
                   jobPc, job_request>>

\* One pass of `for cron in scheduled_job.crons.iter()`: Job::new_async_tz
\* rejects the expression (logged, `continue`) or builds a Job with a fresh
\* uuid whose callback captured plugin_id and internal_id; add(job) fails
\* (logged) or returns the uuid, which is inserted into
\* plugin_registrations.scheduled_jobs.
register_cron ==
    /\ jobPc = "registering"
    /\ job_index <= Len(job_request)
    /\ LET job == job_request[job_index]
           cron == job.crons[cron_index]
       IN \E added \in BOOLEAN :
          LET outcome == IF cron = "invalid" THEN "rejected"
                         ELSE IF added THEN "added" ELSE "add_failed"
              uuid == IF outcome = "added" THEN next_uuid ELSE 0
          IN /\ cron_log' = cron_log \cup {[job |-> job_index, cron |-> cron_index,
                                              outcome |-> outcome, uuid |-> uuid]}
             /\ next_uuid' = IF cron = "valid" THEN next_uuid + 1 ELSE next_uuid
             /\ timers' = IF outcome = "added"
                          THEN timers \cup {[uuid |-> uuid, plugin_id |-> job.plugin_id,
                                             internal_id |-> job.internal_id]}
                          ELSE timers
             /\ scheduled_jobs_by_uuid' =
                   IF outcome = "added"
                   THEN scheduled_jobs_by_uuid \cup {<<uuid, <<job.plugin_id, job.internal_id>>>>}
                   ELSE scheduled_jobs_by_uuid
             /\ job_index' = NextPass(job_index, cron_index)[1]
             /\ cron_index' = NextPass(job_index, cron_index)[2]
    /\ UNCHANGED <<progVars, cmdVars, matchVars, gpVars, pathVars, event,
                   jobPc, job_request>>

\* End of scheduled_job_registrations.
registrations_end ==
    /\ jobPc = "registering"
    /\ job_index > Len(job_request)
    /\ jobPc' = "done"
    /\ UNCHANGED <<progVars, cmdVars, matchVars, gpVars, pathVars, event,
                   job_request, job_index, cron_index, timers,
                   scheduled_jobs_by_uuid, next_uuid, cron_log>>

\* The callback of a Job of the cron engine, run at each firing:
\* runtime_tx.send(CallScheduledJob(plugin_id, internal_id)).
timer_fired ==
    /\ nextId <= MaxMsgs
    /\ \E t \in timers :
          dbc_js_rx' = SendRouted(dbc_js_rx,
                          <<[id |-> nextId, kind |-> "scheduled_job",
                             plugin |-> t.plugin_id, internal_id |-> t.internal_id]>>)
    /\ nextId' = nextId + 1
    /\ UNCHANGED <<mainVars, initVars, rx_closed, collabVars, routerVars,
                   sdVars, logVars, tokenVars, resultVars>>
    /\ UNCHANGED <<cmdVars, matchVars, gpVars, pathVars, jobVars, event>>

\* ---------------------------------------------------------------- plugin directory
\* The directory of a plugin version under the plugin directory:
\* `directory.join(id).join(version)`, as the pair of its components.
Dir(id, version) == <<id, version>>

\* `registry.plugins.get(&plugin_id)` in the resolution task: the key is
\* the key of the plugin in config.plugins; no entry returns Err.
manifest_lookup ==
    /\ pathPc = "lookup"
    /\ lookup_key' = plugin_id
    /\ pathPc' = IF plugin_id \in registry_plugins THEN "materialize" ELSE "Err"
    /\ UNCHANGED <<progVars, cmdVars, matchVars, gpVars, event, jobVars, plugin_id,
                   plugin_registry_id, registry_plugins, wasm_files,
                   plugin_directory, available_plugin, plugin_dir>>

\* The task from `plugin_base = plugin_registry_id + "/" + &version` to its
\* return: a plugin.wasm found there with caching on returns Ok at once,
\* otherwise the files are downloaded and written there, and any failure
\* returns Err. The AvailablePlugin carries the key of config.plugins.
materialize ==
    /\ pathPc = "materialize"
    /\ \E version \in VersionStrings, use_cache \in BOOLEAN, ok \in BOOLEAN :
          LET dir == Dir(plugin_registry_id, version)
              found == use_cache /\ dir \in wasm_files
          IN /\ plugin_directory' = dir
             /\ wasm_files' = IF ~found /\ ok THEN wasm_files \cup {dir} ELSE wasm_files
             /\ pathPc' = IF found \/ ok THEN "Ok" ELSE "Err"
             /\ available_plugin' = IF found \/ ok
                                    THEN [id |-> plugin_id, version |-> version]
                                    ELSE available_plugin
    /\ UNCHANGED <<progVars, cmdVars, matchVars, gpVars, event, jobVars, plugin_id,
                   plugin_registry_id, registry_plugins, lookup_key, plugin_dir>>

\* initialize_plugins, head of the loop body:
\* `plugin_dir = directory.join(&plugin.id).join(&plugin.version)` and
\* `fs::read(plugin_dir.join("plugin.wasm")).unwrap()`.
read_plugin_wasm ==
    /\ pathPc = "Ok"
    /\ LET dir == Dir(available_plugin.id, available_plugin.version)
       IN /\ plugin_dir' = dir
          /\ pathPc' = IF dir \in wasm_files THEN "read" ELSE "panicked"
    /\ UNCHANGED <<progVars, cmdVars, matchVars, gpVars, event, jobVars, plugin_id,
                   plugin_registry_id, registry_plugins, wasm_files,
                   lookup_key, plugin_directory, available_plugin>>

\* ---------------------------------------------------------------- specification
Next ==
    \/ run_setup
    \/ discord_bot_client_start
    \/ job_scheduler_start
    \/ initialize_plugin
    \/ initialize_plugins_finish
    \/ Runtime_start
    \/ main_ctrl_c
    \/ main_ctrl_c_error
    \/ main_token_cancelled
    \/ main_shutdown_returned
    \/ main_read_reason
    \/ main_exit
    \/ restart
    \/ handle_event
    \/ job_fired
    \/ job_scheduler_loop
    \/ discord_bot_client_loop
    \/ \E c \in Callers : shutdown_check(c)
    \/ \E c \in Callers : shutdown_wait_token(c)
    \/ \E c \in Callers : shutdown_write(c)
    \/ \E c \in Callers : shutdown_await_js(c)
    \/ \E c \in Callers : shutdown_await_dbc(c)
    \/ router_recv
    \/ store_lock
    \/ export_return
    \/ host_dependency
    \/ host_discord_request
    \/ host_shutdown
    \/ host_shutdown_return
    \/ router_cancelled

Spec == Init /\ [][Next]_vars

\* The program with a second terminal interrupt: Spec lets the terminal
\* send at most one.
InterruptNext == Next \/ second_ctrl_c

InterruptSpec == Init /\ [][InterruptNext]_vars

\* Startup up to the end of initialize_plugins, for arbitrary registration
\* requests.
RegNext ==
    \/ run_setup
    \/ discord_bot_client_start
    \/ job_scheduler_start
    \/ initialize_plugin
    \/ initialize_plugins_finish

RegSpec == RegInit /\ [][RegNext]_vars

\* application_command_registrations on its own: any commands declared by
\* the plugins, any commands already at the chat service.
CmdInit ==
    /\ requests = [p \in PluginIds |-> ConfiguredRequest(p)]
    /\ Constructed
    /\ cmdPc = "start"
    /\ \E declared \in [PluginIds -> DeclaredCommands] :
          cmd_request = RequestOf(declared)
    /\ \E ids \in SUBSET (1..Len(ExistingCommands)) :
          /\ service = {[id |-> i, scope |-> ExistingCommands[i].scope,
                         name |-> ExistingCommands[i].name] : i \in ids}
          /\ service0 = service
    /\ nextCmdId = Len(ExistingCommands) + 1
    /\ discord_commands = {}
    /\ groups = {}
    /\ guildsLeft = <<>>
    /\ skippedGuilds = {}
    /\ work = <<>>
    /\ application_commands = {}
    /\ forwarded = {}
    /\ MatchIdle
    /\ GpIdle
    /\ PathIdle

CmdNext ==
    \/ group_requests
    \/ fetch_application
    \/ fetch_global_commands
    \/ fetch_user_guilds
    \/ fetch_guild_commands
    \/ visit_group
    \/ register_command
    \/ registrations_done
    \/ delete_old_application_command
    \/ registrations_return

CmdSpec == CmdInit /\ [][CmdNext]_vars

\* find_plugin_version_match on its own, for any request and any versions
\* list of at most MaxVersions entries.
MatchInit ==
    /\ requests = [p \in PluginIds |-> ConfiguredRequest(p)]
    /\ Constructed
    /\ CmdIdle
    /\ GpIdle
    /\ requested_version \in RequestedVersions
    /\ plugin_versions \in UNION {[1..n -> RegistryPluginVersions] : n \in 0..MaxVersions}
    /\ matchResult = "pending"
    /\ PathIdle

MatchNext == find_version

MatchSpec == MatchInit /\ [][MatchNext]_vars

\* The discord bot client during and after plugin initialization, for
\* any message and thread subscriptions of the plugins and any gateway
\* events with subscriber lists.
EventRequests(p) ==
    {r \in RegistrationRequests(p) :
        /\ r.threads \in {{}, {"thread_create"}, ThreadKinds}
        /\ r.message_components = WantsComponents[p]
        /\ r.modals = WantsModals[p]}

EventInit ==
    /\ requests \in {f \in [PluginIds -> UNION {EventRequests(p) : p \in PluginIds}] :
                        \A p \in PluginIds : f[p] \in EventRequests(p)}
    /\ Constructed
    /\ CmdIdle
    /\ MatchIdle
    /\ GpIdle
    /\ PathIdle

EventNext ==
    \/ run_setup
    \/ discord_bot_client_start
    \/ job_scheduler_start
    \/ initialize_plugin
    \/ initialize_plugins_finish
    \/ handle_subscribed_event

EventSpec == EventInit /\ [][EventNext]_vars

\* The same for interactions: any custom ids of the plugins, any outcome
\* of an application-command pass in the store (the commands of the two
\* plugins under the ids the service assigned), any interaction.
InteractionRequests(p) ==
    {r \in RegistrationRequests(p) :
        /\ r.threads = WantsThreads[p]
        /\ r.message_create = (p \in WantsMessages)
        /\ r.message_components \in {{}, {"x"}}
        /\ r.modals \in {{}, {"y"}}}

InteractionInit ==
    /\ requests \in {f \in [PluginIds -> UNION {InteractionRequests(p) : p \in PluginIds}] :
                        \A p \in PluginIds : f[p] \in InteractionRequests(p)}
    /\ Constructed
    /\ cmdPc = "idle"
    /\ cmd_request = <<>>
    /\ service = {}
    /\ service0 = {}
    /\ nextCmdId = 1
    /\ discord_commands = {}
    /\ groups = {}
    /\ guildsLeft = <<>>
    /\ skippedGuilds = {}
    /\ work = <<>>
    /\ application_commands \in
          SUBSET {<<1, <<"a", "c">>>>, <<2, <<"b", "c">>>>}
    /\ forwarded = {}
    /\ MatchIdle
    /\ GpIdle
    /\ PathIdle

InteractionNext ==
    \/ run_setup
    \/ discord_bot_client_start
    \/ job_scheduler_start
    \/ initialize_plugin
    \/ initialize_plugins_finish
    \/ handle_interaction_create

InteractionSpec == InteractionInit /\ [][InteractionNext]_vars

\* scheduled_job_registrations on its own and the timers it creates: each
\* plugin requests no job or one job with any crons.
JobInit ==
    /\ requests = [p \in PluginIds |-> ConfiguredRequest(p)]
    /\ Constructed
    /\ CmdIdle
    /\ MatchIdle
    /\ GpIdle
    /\ event = NoEvent
    /\ pathPc = "idle"
    /\ plugin_id = "none"
    /\ plugin_registry_id = "none"
    /\ registry_plugins = {}
    /\ wasm_files = {}
    /\ lookup_key = "none"
    /\ plugin_directory = NoDir
    /\ available_plugin = NoPlugin
    /\ plugin_dir = NoDir
    /\ jobPc = "idle"
    /\ \E wanted \in SUBSET PluginIds, crons \in [PluginIds -> CronLists] :
          job_request = SelectSeq([i \in 1..Len(ConfigOrder) |->
                                      [plugin_id |-> ConfigOrder[i], internal_id |-> "j",
                                       crons |-> crons[ConfigOrder[i]]]],
                                  LAMBDA r : r.plugin_id \in wanted)
    /\ job_index = 1
    /\ cron_index = 1
    /\ timers = {}
    /\ scheduled_jobs_by_uuid = {}
    /\ next_uuid = 1
    /\ cron_log = {}

JobNext ==
    \/ registrations_start
    \/ register_cron
    \/ registrations_end
    \/ timer_fired

JobSpec == JobInit /\ [][JobNext]_vars

\* One configured plugin from its resolution task to the read of its
\* plugin.wasm, for any key, any reference, any manifest and any content
\* of the plugin directory.
PathInit ==
    /\ requests = [p \in PluginIds |-> ConfiguredRequest(p)]
    /\ Constructed
    /\ CmdIdle
    /\ MatchIdle
    /\ GpIdle
    /\ event = NoEvent
    /\ jobPc = "idle"
    /\ job_request = <<>>
    /\ job_index = 1
    /\ cron_index = 1
    /\ timers = {}
    /\ scheduled_jobs_by_uuid = {}
    /\ next_uuid = 1
    /\ cron_log = {}
    /\ pathPc = "lookup"
    /\ plugin_id \in PluginIds
    /\ plugin_registry_id \in PluginIds
    /\ registry_plugins \in SUBSET PluginIds
    /\ wasm_files \in SUBSET (PluginIds \X VersionStrings)
    /\ lookup_key = "none"
    /\ plugin_directory = NoDir
    /\ available_plugin = NoPlugin
    /\ plugin_dir = NoDir

PathNext ==
    \/ manifest_lookup
    \/ materialize
    \/ read_plugin_wasm

PathSpec == PathInit /\ [][PathNext]_vars

\* get_plugins on its own: one task per configured plugin, all of the same
\* registry, for any request and any manifest entry of each plugin.
GpInit ==
    /\ requests = [p \in PluginIds |-> ConfiguredRequest(p)]
    /\ Constructed
    /\ CmdIdle
    /\ MatchIdle
    /\ gpPc = "joining"
    /\ gp_config \in [PluginIds -> [requested : {"latest", "1"}, listed : BOOLEAN,
                                     versions : ManifestEntries]]
    /\ registries = "absent"
    /\ taskPc = [p \in PluginIds |-> "start"]
    /\ joined = 0
    /\ available_plugins = <<>>
    /\ cache \in BOOLEAN
    /\ wasm_exists \in SUBSET PluginIds
    /\ gpRun = 1
    /\ first_result = <<>>
    /\ manifest_fetches = 0
    /\ file_fetches = 0
    /\ PathIdle

GpNext ==
    \/ \E p \in PluginIds : task_check_registry(p)
    \/ \E p \in PluginIds : fetch_registry(p)
    \/ \E p \in PluginIds : task_resolve(p)
    \/ \E p \in PluginIds : task_download(p)
    \/ join_task
    \/ get_plugins_return
    \/ get_plugins_again

GpSpec == GpInit /\ [][GpNext]_vars

\* ---------------------------------------------------------------- properties
Resolved == {"acked", "dropped"}

\* C1: any number of calls to Runtime::shutdown, from both callers and in
\* any interleaving, run exactly one stop sequence (one recorded reason and
\* one Shutdown message to the cron engine, one Shutdown message to the
\* chat-service client), and a call returns only once the token has fired.
C1_OneStopSequence ==
    /\ Cardinality({c \in Callers : sdStage[c] >= 2}) <= 1
    /\ Cardinality({c \in Callers : sdStage[c] >= 3}) <= 1
    /\ \A c \in Callers : sdPc[c] = "returned" => cancellation_token

\* C2: in every stop sequence the Shutdown message to the chat-service
\* client is sent only after the cron engine's acknowledgement arrived (or
\* its reply channel was dropped), and the token fires only after the
\* chat-service client's acknowledgement arrived (or was dropped).
C2_StopSequenceOrdered ==
    /\ \A c \in Callers :
          /\ sdStage[c] >= 3 => jsDone[c] \in Resolved
          /\ sdStage[c] = 4 => dbcDone[c] \in Resolved
    /\ \A i \in 1..Len(dbc_rx) :
          dbc_rx[i].type = "Shutdown" => jsDone[dbc_rx[i].caller] \in Resolved
    /\ cancellation_token => \E c \in Callers : sdStage[c] = 4

C2_Witness ==
    \E c \in Callers :
        sdStage[c] = 4 /\ jsDone[c] = "acked" /\ dbcDone[c] = "acked"

\* C3: once the token has fired, the shutdown export of every loaded plugin
\* with the Shutdown capability has been invoked exactly once, and that of
\* the other plugins never.
C3_ShutdownExportsCalled ==
    cancellation_token =>
        \A p \in plugins :
            shutdown_calls[p] = IF p \in ShutdownCapable THEN 1 ELSE 0

\* C4: the recorded reason determines how main ends: Normal gives exit code
\* 0, SigInt gives 130, Restart gives a re-exec and exit code 1 only when
\* the re-exec fails.
C4_ReasonDrivesExitCode ==
    /\ mainPc = "exited" =>
          /\ reasonAtExit = "Normal" => exitCode = 0
          /\ reasonAtExit = "SigInt" => exitCode = 130
          /\ reasonAtExit = "Restart" => exitCode = 1
    /\ mainPc = "reexec" => reasonAtExit = "Restart"
    /\ mainPc = "restart" => SHUTDOWN = "Restart"

\* C5: when run returns, a shutdown reason is recorded, so main never fails
\* on an absent reason; a startup that fails before the router was started
\* ends the process with exit code 1.
C5_StartupFailureExitsOne ==
    /\ mainPc = "runReturned" => SHUTDOWN # NoReason
    /\ mainPc # "panicked"
    /\ (routerPc = "notStarted" /\ exitCode # -1) => exitCode = 1

\* C6: for every plugin the router's invocations begin and return in the
\* order in which the routed messages naming it arrived: an invocation is
\* never overtaken by a later message of the same plugin, and it begins
\* only after the previous one of that plugin returned.
C6_PerPluginArrivalOrder ==
    \A p \in PluginIds :
        /\ lastCompleted[p] <= lastStarted[p]
        /\ \A i \in 1..Len(dbc_js_rx) :
              dbc_js_rx[i].plugin = p => dbc_js_rx[i].id > lastStarted[p]
        /\ (routerPc = "calling" /\ curMsg.plugin = p) =>
              IF Entered >= 1
              THEN lastStarted[p] = curMsg.id /\ lastCompleted[p] < curMsg.id
              ELSE lastCompleted[p] = lastStarted[p] /\ lastStarted[p] < curMsg.id

C6_Witness ==
    \E p \in PluginIds :
        plugins = {p} /\ lastStarted[p] = 2 /\ lastCompleted[p] = 2

\* C7: at most one invocation is inside a given plugin's store, and an
\* invocation is inside only while the store mutex is held.
C7_StoreMutualExclusion ==
    \A p \in PluginIds :
        /\ Cardinality({i \in 1..Entered : stack[i] = p}) <= 1
        /\ p \in Held => storeLock[p]

C7_Witness ==
    /\ routerPc = "calling"
    /\ Len(stack) = 2
    /\ topState = "lockWait"
    /\ storeLock[Last(stack)]

\* C8: until initialize_plugins has returned for all plugins the router is
\* not started: every routed message enqueued so far is still in the
\* channel and no plugin export has been entered.
C8_NoDispatchBeforeInit ==
    (mainPc \in {"start", "startDbc", "startJs", "initPlugins", "startRouter"}) =>
        /\ routerPc = "notStarted"
        /\ Len(dbc_js_rx) = nextId - 1
        /\ \A p \in PluginIds : lastStarted[p] = 0

C8_Witness ==
    /\ mainPc = "initPlugins"
    /\ toInit # <<>>
    /\ dbc_js_rx # <<>>

C10_NoDeliveryAfterCancel ==
    [][cancellation_token => lastStarted' = lastStarted]_vars

\* C11: a slow plugin blocks only its own queue: while an invocation of a
\* plugin is in progress (for example blocked on a chat-service reply) and
\* the oldest routed message in the channel names a different loaded plugin
\* that takes no part in that invocation, the router can dispatch that
\* message without waiting for the invocation to return.
C11_SlowPluginBlocksOnlyItself ==
    (/\ routerPc = "calling"
     /\ Entered >= 1
     /\ dbc_js_rx # <<>>
     /\ Head(dbc_js_rx).plugin \in plugins \ Range(stack))
        => ENABLED router_recv

\* C12: once initialize_plugins has returned, every plugin id in every
\* event subscriber list (message_create and each thread_* list) is a key
\* of the runtime's plugins map.
C12_SubscribersLoaded ==
    mainPc \notin {"start", "startDbc", "startJs", "initPlugins"} =>
        /\ Range(message_create) \subseteq plugins
        /\ \A k \in ThreadKinds : Range(thread_lists[k]) \subseteq plugins

C12_Witness ==
    /\ routerPc = "calling"
    /\ plugins = {"b"}
    /\ message_create = <<"b">>
    /\ thread_lists["thread_update"] = <<"b">>

\* C13: a plugin whose registration request declares no subscription for
\* an event kind is absent from that kind's subscriber list; one that
\* declares none at all is absent from every list.
C13_UndeclaredAbsent ==
    \A p \in PluginIds :
        /\ ~requests[p].message_create => p \notin Range(message_create)
        /\ \A k \in ThreadKinds :
              k \notin requests[p].threads => p \notin Range(thread_lists[k])
        /\ (~requests[p].message_create /\ requests[p].threads = {}) =>
              /\ p \notin Range(message_create)
              /\ \A k \in ThreadKinds : p \notin Range(thread_lists[k])

C13_Witness ==
    /\ mainPc = "startRouter"
    /\ \E p, q \in plugins :
          /\ ~requests[p].message_create
          /\ requests[p].threads = {}
          /\ message_create = <<q>>
          /\ thread_lists["thread_create"] = <<q>>

\* C14: when the registration pass has completed, every successfully
\* registered command is stored under the id the chat service returned for
\* it, every stored id maps to one (plugin_id, internal_id) and no two
\* registrations of the pass were given the same id (none is overwritten).
C14_CommandIdsUnique ==
    cmdPc = "done" =>
        /\ \A r \in forwarded :
              r.id # 0 =>
                  <<r.id, <<r.plugin_id, r.internal_id>>>> \in application_commands
        /\ \A e1, e2 \in application_commands : e1[1] = e2[1] => e1 = e2
        /\ \A r1, r2 \in forwarded :
              (r1.id # 0 /\ r1.id = r2.id) => r1 = r2

\* The requests of the pass that deserialize and declare the same name in
\* the same scope as registration r, in initialization order.
SameName(r) ==
    SelectSeq(cmd_request,
              LAMBDA c : c.valid /\ c.scope = r.scope /\ c.name = r.declared)

\* C15: when k >= 2 plugins declare a command of the same name in the same
\* scope, the first in initialization order is forwarded under the
\* unsuffixed name and the i-th later one under name~i.
C15_SuffixByInitOrder ==
    \A r \in forwarded :
        Len(SameName(r)) >= 2 =>
            \A i \in 1..Len(SameName(r)) :
                SameName(r)[i].plugin_id = r.plugin_id =>
                    r.name = IF i = 1 THEN r.declared
                             ELSE r.declared \o "~" \o ToString(i - 1)

\* C16: when the registration pass has completed, every command that
\* existed at the chat service (globally or in a guild of the bot) and was
\* not re-claimed by a registration of the pass is deleted, and no
\* re-claimed command is deleted, also when the same name exists in
\* several scopes (stated for the passes in which no request to the chat
\* service failed in transport).
C16_ObsoleteDeleted ==
    (cmdPc = "done" /\ skippedGuilds = {} /\ \A r \in forwarded : r.sent) =>
        \A c \in service0 :
            LET reclaimed == \E r \in forwarded : r.scope = c.scope /\ r.name = c.name
                kept == \E d \in service : d.id = c.id
            IN kept <=> reclaimed

\* C18: registry resolution is non-fatal per plugin: whatever resolutions
\* fail, get_plugins returns success, with an AvailablePlugin for exactly
\* the plugins whose resolution succeeded.
C18_ResolutionNonFatal ==
    /\ gpPc # "panicked"
    /\ gpPc = "returned" =>
          {available_plugins[i].id : i \in 1..Len(available_plugins)}
              = {p \in PluginIds : taskPc[p] = "Ok"}

\* C21: with the cache enabled and plugin.wasm present for every plugin the
\* first run resolved (at least one), a repeated run of get_plugins with the same
\* configuration returns the same list in the same order and makes no
\* network request, the registry manifest included.
C21_CachedRerunIdempotent ==
    (/\ gpRun = 2
     /\ gpPc = "returned"
     /\ cache
     /\ first_result # <<>>
     /\ \A i \in 1..Len(first_result) : first_result[i].id \in wasm_exists) =>
        /\ available_plugins = first_result
        /\ manifest_fetches = 0
        /\ file_fetches = 0

\* Every place of the registration store and of the forwarded requests
\* that can name a plugin.
Registered ==
    Range(message_create)
        \cup UNION {Range(thread_lists[k]) : k \in ThreadKinds}
        \cup {e[2] : e \in message_components}
        \cup {e[2] : e \in modals}
Forwarded ==
    Range(command_requests) \cup Range(job_requests) \cup scheduled_jobs
        \cup UNION {Range(js_rx[i].jobs) : i \in 1..Len(js_rx)}
        \cup UNION {Range(dbc_rx[i].jobs) : i \in 1..Len(dbc_rx)}

\* C22: a plugin whose compilation, instantiation or initialization export
\* failed is not in the plugins map, in no part of the registration store,
\* and none of its commands or jobs is forwarded; the loop goes on with the
\* remaining plugins, which are exactly the ones still pending.
C22_FailedPluginSkipped ==
    \A p \in PluginIds :
        init_outcome[p] = "skipped" =>
            /\ p \notin plugins
            /\ p \notin Registered
            /\ p \notin Forwarded
            /\ (\A q \in PluginIds : init_outcome[q] \in {"pending", "loaded", "skipped"}) =>
                  /\ Range(toInit) = {q \in PluginIds : init_outcome[q] = "pending"}
                  /\ toInit # <<>> => mainPc = "initPlugins"

C22_Witness ==
    /\ init_outcome = [p \in PluginIds |-> IF p = "a" THEN "skipped" ELSE "loaded"]
    /\ plugins = {"b"}
    /\ command_requests = <<"b">>
    /\ \E i \in 1..Len(js_rx) : js_rx[i].type = "Register" /\ js_rx[i].jobs = <<>>
    /\ \E i \in 1..Len(dbc_rx) : dbc_rx[i].type = "Register" /\ dbc_rx[i].jobs = <<"b">>

\* C23: a plugin whose plugin.wasm cannot be read, or whose workspace
\* directory cannot be checked or created, is skipped: the host does not
\* panic, initialize_plugins does not return an error, and the loop goes on
\* with the remaining plugins.
C23_InitFailuresNonFatal ==
    \A p \in PluginIds :
        init_outcome[p] \in {"unreadable", "workspace_unchecked", "workspace_uncreated"} =>
            /\ mainPc # "panicked"
            /\ routerPc = "notStarted" => mainPc \in {"initPlugins", "startRouter"}

\* C24: when the export of a routed call returns an error string, the
\* plugins map and the registration store are unchanged and the router is
\* back in its receive loop, where the next routed message is taken.
C24_PluginErrorOnlyLogged ==
    [][(lastCompleted' # lastCompleted /\ last_result'.kind = "error") =>
            /\ plugins' = plugins
            /\ <<message_create, thread_lists, message_components, modals>>'
                  = <<message_create, thread_lists, message_components, modals>>
            /\ routerPc' = "recv"]_vars

C24_Witness ==
    /\ last_result = [plugin |-> "a", kind |-> "error"]
    /\ routerPc = "calling"
    /\ topState = "running"
    /\ stack \in {<<"a">>, <<"b">>}
    /\ lastStarted[stack[1]] = curMsg.id

\* C25: after a routed call of plugin p trapped, no later call is executed
\* inside p.
C25_TrappedPluginRemoved ==
    last_result.kind = "trap" =>
        ~(routerPc = "calling" /\ last_result.plugin \in Held)

\* C26: a dependency host call whose target is not in the plugins map
\* returns Err to the calling plugin, which runs on; it never ends in a
\* panic of the task that runs the caller.
C26_DependencyMissingTargetErr ==
    /\ dep_result # "missing_panic"
    /\ (routerPc = "calling" /\ Len(stack) >= 2) =>
            \A i \in 1..Len(stack) : stack[i] \in plugins

\* C27: a shutdown host call of a plugin without the Shutdown permission
\* has no effect: the call records no reason, sends no Shutdown message and
\* does not fire the token (stated for runs in which no plugin with the
\* permission was ever entered, so that every step of the plugin-side stop
\* sequence is the work of a plugin without it).
C27_ShutdownNeedsPermission ==
    (/\ routerPc = "calling"
     /\ topState = "hostShutdown"
     /\ \A i \in 1..Len(stack) : stack[i] \notin ShutdownCapable
     /\ depCalls = 0
     /\ \A q \in ShutdownCapable : lastStarted[q] = 0) =>
        /\ sdStage["plugin"] < 2
        /\ SHUTDOWN \in {NoReason, "SigInt"}

\* C28: whenever a shutdown reason is recorded and the process still runs,
\* whoever triggered the stop, a terminal interrupt ends the process at once
\* with exit code 130.
C28_InterruptWhileStoppingExits ==
    [][(/\ SHUTDOWN # NoReason
        /\ \/ mainPc = "waitSignal" /\ mainPc' = "inShutdown"
           \/ sdType["main"] = "SigInt" /\ mainPc # "exited" /\ mainPc' = "exited")
          => (mainPc' = "exited" /\ exitCode' = 130)]_vars

\* The innermost frame of the call chain waits for the store mutex of a
\* plugin that an outer frame of the same chain holds.
Reentered ==
    /\ routerPc = "calling"
    /\ topState = "lockWait"
    /\ Len(stack) >= 2
    /\ \E i \in 1..(Len(stack) - 1) : stack[i] = Last(stack)

\* C29: a dependency call that re-enters a plugin of its own call chain
\* never completes: the chain stays as it is, no call starts, returns or
\* hands a result to its caller and no routed message is taken, until the
\* router's loop is dropped at cancellation.
C29_ReentrantDependencyDeadlocks ==
    [][Reentered =>
          \/ /\ Reentered'
             /\ UNCHANGED <<stack, storeLock, lastStarted, lastCompleted,
                            last_result, dep_result>>
             /\ Len(dbc_js_rx') >= Len(dbc_js_rx)
             /\ SubSeq(dbc_js_rx', 1, Len(dbc_js_rx)) = dbc_js_rx
          \/ routerPc' = "done" /\ cancellation_token]_vars

C29_Witness ==
    /\ Reentered
    /\ stack = <<"a", "b", "a">>
    /\ dbc_js_rx # <<>>
    /\ ~cancellation_token

\* C30: within one run of get_plugins the manifest of a registry is
\* requested at most once, whether the request succeeds or fails.
C30_ManifestFetchedOnce == manifest_fetches <= 1

\* compatible is a prefix of the host's version.
IsHostPrefix(compatible) ==
    /\ Len(compatible) <= Len(HostVersion)
    /\ \A i \in 1..Len(compatible) : compatible[i] = HostVersion[i]

\* C19: for the request latest, find_plugin_version_match returns the
\* newest entry (the last of the oldest-to-newest list) that is not
\* deprecated and whose compatible host version is a prefix of the host's
\* version, and no version when no entry qualifies.
C19_LatestPicksNewestUsable ==
    (matchResult # "pending" /\ requested_version = "latest") =>
        LET qualifying ==
                {i \in 1..Len(plugin_versions) :
                    /\ plugin_versions[i].deprecated # "true"
                    /\ IsHostPrefix(plugin_versions[i].compatible_program_version)}
        IN IF qualifying = {} THEN matchResult = "None"
           ELSE \E i \in qualifying :
                    /\ \A j \in qualifying : j <= i
                    /\ matchResult = plugin_versions[i].version

\* C20: for an explicit request, the version whose string equals the
\* request is selected if and only if its compatible host version is a
\* prefix of the host's version, whether or not it is marked deprecated
\* (stated for compatible host versions no longer than the host's version).
C20_ExplicitIgnoresDeprecated ==
    (matchResult # "pending" /\ requested_version # "latest") =>
        \A i \in 1..Len(plugin_versions) :
            (/\ plugin_versions[i].version = requested_version
             /\ Len(plugin_versions[i].compatible_program_version) <= Len(HostVersion)
             /\ \A j \in 1..Len(plugin_versions) :
                    plugin_versions[j].version = requested_version => j = i)
                => IF IsHostPrefix(plugin_versions[i].compatible_program_version)
                   THEN matchResult = requested_version
                   ELSE matchResult = "None"

\* The plugin of a non-empty set that is initialized last.
LastInitialized(S) ==
    CHOOSE p \in S :
        \A q \in S :
            \E i, j \in 1..Len(ConfigOrder) :
                ConfigOrder[i] = q /\ ConfigOrder[j] = p /\ i <= j

\* C17: when several loaded plugins registered the same message-component
\* or modal custom id, the store holds exactly one entry for the id and it
\* names the plugin initialized last among them.
C17_LastWriterWins ==
    \A k \in CustomIds :
        LET byComponent == {p \in plugins : k \in requests[p].message_components}
            byModal == {p \in plugins : k \in requests[p].modals}
        IN /\ byComponent # {} =>
                {e \in message_components : e[1] = k} = {<<k, LastInitialized(byComponent)>>}
           /\ byModal # {} =>
                {e \in modals : e[1] = k} = {<<k, LastInitialized(byModal)>>}

C17_Witness ==
    /\ mainPc = "startRouter"
    /\ \E k \in CustomIds :
          /\ Cardinality({p \in plugins : k \in requests[p].message_components}) = 2
          /\ Cardinality({p \in plugins : k \in requests[p].modals}) = 2
          /\ <<k, ConfigOrder[2]>> \in message_components

\* ---------------------------------------------------------------- liveness
\* Every task of the executor that can run is eventually polled, a plugin
\* export eventually returns, and a select! whose cancellation branch is
\* ready again and again eventually takes it.
Fairness ==
    /\ WF_vars(store_lock)
    /\ SF_vars(export_return)
    /\ WF_vars(host_shutdown_return)
    /\ WF_vars(job_scheduler_loop)
    /\ WF_vars(discord_bot_client_loop)
    /\ \A c \in Callers :
          /\ WF_vars(shutdown_check(c))
          /\ WF_vars(shutdown_wait_token(c))
          /\ WF_vars(shutdown_write(c))
          /\ WF_vars(shutdown_await_js(c))
          /\ WF_vars(shutdown_await_dbc(c))
    /\ SF_vars(router_cancelled)

LiveSpec == Init /\ [][Next]_vars /\ Fairness

\* LiveSpec with the main task scheduled as well: the select! of
\* shutdown() in main.rs is polled once the token has fired or
\* runtime.shutdown has returned.
StopSpec ==
    /\ Init /\ [][Next]_vars /\ Fairness
    /\ WF_vars(main_token_cancelled)
    /\ WF_vars(main_shutdown_returned)

\* C31: check_plugin_version_usability is total: for every entry of a
\* versions list it answers usable or not usable, usable only for a
\* compatible host version that is a prefix of the host's version, and the
\* version match built on it never fails.
C31_CompatibilityCheckTotal ==
    /\ matchResult # "Panic"
    /\ \A i \in 1..Len(plugin_versions) :
          LET usability == check_plugin_version_usability(plugin_versions[i])
          IN /\ usability \in {"usable", "unusable"}
             /\ usability = "usable" =>
                   IsHostPrefix(plugin_versions[i].compatible_program_version)

\* C32: the plugin.wasm of an emitted AvailablePlugin is read from the
\* directory in which the resolution task found or wrote it, and the
\* manifest is looked up with the plugin id parsed from the reference,
\* also when the configured id is another one.
C32_LoadsFromResolvedDirectory ==
    /\ pathPc \in {"read", "panicked"} => plugin_dir = plugin_directory
    /\ lookup_key # "none" => lookup_key = plugin_registry_id

\* The routed messages the transition appended to the channel.
Enqueued == SubSeq(dbc_js_rx', Len(dbc_js_rx) + 1, Len(dbc_js_rx'))
OnlyAppended ==
    /\ Len(dbc_js_rx') >= Len(dbc_js_rx)
    /\ SubSeq(dbc_js_rx', 1, Len(dbc_js_rx)) = dbc_js_rx

\* C33: for one MessageCreate or Thread* event the client enqueues one
\* CallDiscordEvent per subscriber of the event's kind, in the order of the
\* subscriber list, each with the kind and the payload of the event, and
\* nothing when the list is empty.
C33_OneMessagePerSubscriber ==
    [][handle_subscribed_event =>
          LET subs == Subscribers(event'.kind) IN
          /\ OnlyAppended
          /\ Len(Enqueued) = Len(subs)
          /\ \A i \in 1..Len(Enqueued) :
                /\ Enqueued[i].kind = "discord_event"
                /\ Enqueued[i].plugin = subs[i]
                /\ Enqueued[i].event = event'.kind
                /\ Enqueued[i].payload = event'.payload]_vars

C33_Witness ==
    /\ event.kind \in ThreadKinds
    /\ Len(dbc_js_rx) = 2
    /\ dbc_js_rx[1].plugin = "a" /\ dbc_js_rx[2].plugin = "b"
    /\ dbc_js_rx[1].event = event.kind /\ dbc_js_rx[2].event = event.kind
    /\ thread_lists[event.kind] = <<"a", "b">>

\* C34: an application-command interaction whose command id is in the
\* store is routed as exactly one CallDiscordEvent to the plugin stored
\* under that id, and an interaction whose command id or custom id is not
\* in the store enqueues nothing.
C34_RoutedByCommandId ==
    [][handle_interaction_create =>
          LET owners == IF event'.data = "application_command"
                        THEN {e[2][1] : e \in {x \in application_commands :
                                                  x[1] = event'.command_id}}
                        ELSE IF event'.data = "message_component"
                        THEN {e[2] : e \in {x \in message_components :
                                               x[1] = event'.custom_id}}
                        ELSE IF event'.data = "modal_submit"
                        THEN {e[2] : e \in {x \in modals : x[1] = event'.custom_id}}
                        ELSE {}
          IN /\ OnlyAppended
             /\ owners = {} => Enqueued = <<>>
             /\ \A q \in owners :
                   /\ Len(Enqueued) = 1
                   /\ Enqueued[1].plugin = q
                   /\ Enqueued[1].event = "interaction_create"
                   /\ Enqueued[1].payload = event'.payload]_vars

\* The passes of the inner loop that ended with a timer.
AddedCrons == {e \in cron_log : e.outcome = "added"}

\* C36: every cron expression the cron engine accepted has a timer uuid
\* of its own that the store maps to the (plugin_id, internal_id) of its
\* request; each firing enqueues exactly one CallScheduledJob with the ids
\* of the timer; a rejected expression is skipped and every other
\* expression of every job is still handled.
C36_OneTimerPerAcceptedCron ==
    [][/\ timer_fired =>
            /\ OnlyAppended
            /\ Len(Enqueued) = 1
            /\ Enqueued[1].kind = "scheduled_job"
            /\ \E e \in scheduled_jobs_by_uuid :
                  e[2] = <<Enqueued[1].plugin, Enqueued[1].internal_id>>
       /\ \A e \in AddedCrons' :
            /\ <<e.uuid, <<job_request[e.job].plugin_id,
                           job_request[e.job].internal_id>>>> \in scheduled_jobs_by_uuid'
            /\ \A f \in AddedCrons' : f.uuid = e.uuid => f = e
       /\ Cardinality(scheduled_jobs_by_uuid') = Cardinality(AddedCrons')
       /\ jobPc' = "done" =>
            \A j \in 1..Len(job_request) : \A c \in 1..Len(job_request[j].crons) :
               \E e \in cron_log' :
                  /\ e.job = j /\ e.cron = c
                  /\ e.outcome = "rejected" <=> job_request[j].crons[c] = "invalid"]_vars

C36_Witness ==
    /\ jobPc = "done"
    /\ Len(job_request) = 2
    /\ job_request[1].crons = <<"invalid", "valid">>
    /\ Cardinality(scheduled_jobs_by_uuid) = 2
    /\ Len(dbc_js_rx) = 2
    /\ dbc_js_rx[1].plugin # dbc_js_rx[2].plugin

\* C35: once the event router has been started, every scheduled-job
\* registration requested during initialization is in the store and the
\* application-command registrations are no longer waiting in the channel
\* of the discord bot client.
C35_RegisteredBeforeRouting ==
    routerPc # "notStarted" =>
        /\ Range(job_requests) \subseteq scheduled_jobs
        /\ \A i \in 1..Len(dbc_rx) : dbc_rx[i].type # "Register"

\* C37: every stop sequence that starts (the reason is written and
\* Shutdown is sent to the job scheduler) eventually fires the
\* cancellation token, whatever the state of the job scheduler task and of
\* the discord bot client task and its shards.
C37_StopSequenceFiresToken ==
    (\E c \in Callers : sdStage[c] >= 2) ~> cancellation_token

\* C38: every routed message in the channel, and so every message the
\* router dequeues, names a plugin that is in the plugins map: the lookup
\* of the router succeeds and the call begins; no plugin is ever removed
\* from the map.
C38_RoutedPluginsLoaded ==
    [][/\ \A i \in 1..Len(dbc_js_rx') : dbc_js_rx'[i].plugin \in plugins'
       /\ router_recv => /\ Head(dbc_js_rx).plugin \in plugins
                         /\ routerPc' = "calling"
                         /\ curMsg'.plugin \in plugins'
       /\ plugins \subseteq plugins']_vars

C38_Witness ==
    /\ routerPc = "calling"
    /\ curMsg.plugin = "b"
    /\ init_outcome["a"] = "skipped"
    /\ plugins = {"b"}
    /\ dbc_js_rx # <<>>

\* C39: the recorded shutdown reason is written once: after a trigger
\* has set it, no later or concurrent trigger overwrites it.
C39_ReasonWrittenOnce ==
    [][SHUTDOWN # NoReason => SHUTDOWN' = SHUTDOWN]_vars

\* C40: a shutdown host call a plugin makes from inside a handler the
\* router is executing does not deadlock: the token fires, the router task
\* ends and the main task's wait on the token returns.
C40_PluginShutdownCompletes ==
    (topState = "hostShutdown") ~>
        (/\ cancellation_token
         /\ routerPc \in {"done", "panicked"}
         /\ mainPc \notin {"waitSignal", "inShutdown"})

====
